---- MODULE Spec2Model ----
(***************************************************************************)
(* Conversational restaurant search: the /search route handlers of the     *)
(* five route variants, the per-user session they mutate, and the          *)
(* connection handling of DatabaseRestaurantRepository.                    *)
(*                                                                         *)
(* Variants (one application each, fixed for a behaviour):                 *)
(*   "app"   src/app/api/routes.py            multi-turn, in-memory search *)
(*   "ai"    src/app/ai/api/routes.py         multi-turn, database search  *)
(*   "api"   src/api/routes.py                free-text model reply        *)
(*   "alt"   src/api/routes_alternative.py    no model, no session         *)
(*   "smart" src/app/api/restaurant_routes.py single-shot                  *)
(***************************************************************************)
EXTENDS Integers, Sequences, FiniteSets, TLC

VARIABLES variant, session, last, dbPool, pools, calls,
          now, sessions, ret, input, output

vars == <<variant, session, last, dbPool, pools, calls,
          now, sessions, ret, input, output>>

routeVars == <<variant, session, last>>
poolVars == <<dbPool, pools, calls>>
\* the clock, the session store and the last store operation
storeVars == <<now, sessions, ret>>
\* argument and result of a function of the search pipeline
callVars == <<input, output>>

(***************************************************************************)
(* Bounds                                                                  *)
(***************************************************************************)
MaxHistory == 2
MaxPools == 2
MaxCalls == 3

(***************************************************************************)
(* JSON values as the model returns them: null, a number, or a string.     *)
(***************************************************************************)
JNull == [k |-> "null", n |-> 0, s |-> ""]
JInt(n) == [k |-> "int", n |-> n, s |-> ""]
JStr(s) == [k |-> "str", n |-> 0, s |-> s]

\* Python truthiness of a value: None, 0 and "" are falsy.
Truthy(v) == \/ (v.k = "int" /\ v.n # 0)
             \/ (v.k = "str" /\ v.s # "")

IsNumber(v) == v.k = "int"

RadiusVals == {JNull, JInt(0), JInt(3000), JStr("3km"), JStr("3000")}
CuisineVals == {JNull, JStr(""), JStr("japanese")}
ExtractKeys == {"radius", "cuisine"}
ValsOf(key) == IF key = "radius" THEN RadiusVals ELSE CuisineVals

\* extracted_info objects: any subset of the keys, each with any value.
ExtractedInfos ==
    UNION { {f \in [K -> RadiusVals \cup CuisineVals] :
                \A key \in K : f[key] \in ValsOf(key)} : K \in SUBSET ExtractKeys }

EmptyInfo == [key \in {} |-> JNull]

\* confidence in tenths: 0.5 and 0.8
Confidences == {5, 8}
ConfidenceThreshold == 8
MissingInfos == {<<>>, <<"price_level">>}

UserInputs == {"in1"}
SearchResults == {<<>>, <<"r1">>, <<"r1", "r2">>}

(***************************************************************************)
(* UserSession                                                             *)
(***************************************************************************)
USER == "user"
ASSISTANT == "assistant"
SYSTEM == "system"

ChatMessage(role, content) == [role |-> role, content |-> content]

SearchCriteria == [radius |-> JNull, cuisine |-> JNull, try_new |-> FALSE]

UserSession == [history |-> <<>>, data |-> SearchCriteria]

NoSession == [history |-> <<ChatMessage("none", "none")>>, data |-> SearchCriteria]

add_message(s, role, content) ==
    [s EXCEPT !.history = Append(@, ChatMessage(role, content))]

clear_history(s) == [s EXCEPT !.history = <<>>]

\* setattr for every keyword the criteria object has; a null value overwrites.
update_search_criteria(s, kwargs) ==
    [s EXCEPT !.data = [f \in DOMAIN s.data |->
                           IF f \in DOMAIN kwargs THEN kwargs[f] ELSE s.data[f]]]

reset_search_criteria(s) == [s EXCEPT !.data = SearchCriteria]

prepare_for_new_conversation(s) ==
    add_message(reset_search_criteria(clear_history(s)), SYSTEM, "new_conversation")

Min(a, b) == IF a < b THEN a ELSE b

rollback_last_messages(s, count) ==
    IF count <= 0 THEN s
    ELSE LET actual_count == Min(count, Len(s.history))
         IN [s EXCEPT !.history = SubSeq(@, 1, Len(@) - actual_count)]

get_or_create(s) == IF s = NoSession THEN UserSession ELSE s

\* a session class that does offer get_messages_for_ai
HasGetMessagesForAi_present == TRUE

\* The session class of app/models has no get_messages_for_ai method.
HasGetMessagesForAi == FALSE

(***************************************************************************)
(* Responses and the per-turn record                                       *)
(***************************************************************************)
SearchResponseModel(type, message, recommendations, missing_fields, metadata) ==
    [type |-> type, message |-> message, recommendations |-> recommendations,
     missing_fields |-> missing_fields, metadata |-> metadata]

NoResponse == SearchResponseModel("none", "none", <<>>, <<>>, {})

AiEvent(name, ok) == [op |-> "ai", name |-> name, ok |-> ok]
SearchEvent(ok) == [op |-> "search", name |-> "repository", ok |-> ok]

\* What a turn did: the session it leaves, how the handler ended
\* ("response", "raised", "http500", "dict"), the response, the ordered
\* model calls and repository searches, and the criteria after the merge.
Turn(s, outcome, resp, log, merged) ==
    [session |-> s, outcome |-> outcome, resp |-> resp, log |-> log, merged |-> merged]

NoTurn == [outcome |-> "none", resp |-> NoResponse, log |-> <<>>,
           merged |-> SearchCriteria, pre |-> <<>>, reply |-> "none", success |-> FALSE, confidence |-> 0,
           missing_info |-> <<>>]

(***************************************************************************)
(* Model replies                                                           *)
(***************************************************************************)
\* Reply of the intent-analysis model call: the call raises ("fail": empty
\* response, bad key, quota, unavailable model), or returns text that is not
\* JSON, a JSON array, or a JSON object with these fields.
IntentReply(kind, success, confidence, extracted_info, missing_info) ==
    [kind |-> kind, success |-> success, confidence |-> confidence,
     extracted_info |-> extracted_info, missing_info |-> missing_info]

IntentReplies ==
    {IntentReply(kind, FALSE, 0, EmptyInfo, <<>>) : kind \in {"fail", "nonjson", "nondict"}}
    \cup {IntentReply("dict", su, c, e, m) :
            su \in BOOLEAN, c \in Confidences, e \in ExtractedInfos, m \in MissingInfos}

\* Reply of the legacy model call.
LegacyReplies == {"fail", "text", "json_both", "json_other"}
LegacyParams == [radius |-> JInt(3000), cuisine |-> JStr("japanese")]

\* Outcome of the repository query: it raises, or returns restaurants.
SearchOutcomes ==
    {[ok |-> FALSE, rows |-> <<>>]} \cup {[ok |-> TRUE, rows |-> r] : r \in SearchResults}

REQUIRED_FIELDS == <<"radius", "cuisine">>

\* The analysis result when the reply could not be used.
FailedAnalysis ==
    [isdict |-> TRUE, success |-> FALSE, confidence |-> 0,
     extracted_info |-> EmptyInfo, missing_info |-> <<"all_required_info">>]

ParsedAnalysis(reply) ==
    [isdict |-> TRUE, success |-> reply.success, confidence |-> reply.confidence,
     extracted_info |-> reply.extracted_info, missing_info |-> reply.missing_info]

\* app/services/ai_service.py: a JSON reply is returned as parsed; a reply
\* that is not a JSON object makes result.get raise inside the try, so it
\* ends in the failed analysis like a failed call or non-JSON text.
analyze_user_intent(reply) ==
    IF reply.kind = "dict" THEN ParsedAnalysis(reply) ELSE FailedAnalysis

\* required fields that are absent or falsy, then the model's own list
\* when the confidence is below the threshold
_get_missing_required_fields(s, ai_analysis) ==
    LET IsMissing(field) == ~Truthy(s.data[field])
        missing_required == SelectSeq(REQUIRED_FIELDS, IsMissing)
    IN missing_required \o
         (IF ai_analysis.confidence < ConfidenceThreshold
            THEN ai_analysis.missing_info ELSE <<>>)

\* a cleanup that keeps the criteria of the finished conversation
_cleanup_session_keeps_criteria(s) ==
    add_message(clear_history(s), SYSTEM, "new_conversation")

_cleanup_session(s) ==
    prepare_for_new_conversation(reset_search_criteria(clear_history(s)))

\* an error response that carries the text of the exception
ErrorResponse_exception_text ==
    SearchResponseModel("error", "exception_text", <<>>, <<>>,
                        {"error", "conversation_reset"})

ErrorResponse ==
    SearchResponseModel("error", "error_generic", <<>>, <<>>,
                        {"error", "conversation_reset"})

AnalysisFailedResponse ==
    SearchResponseModel("error", "error_not_understood", <<>>, <<>>,
                        {"ai_analysis_failed"})

(***************************************************************************)
(* app/api/routes.py                                                       *)
(* Each helper yields the set of ways it can end, one per outcome of the   *)
(* model call or repository query it makes.                                *)
(***************************************************************************)
_handle_analysis_failure(s, user_input, log) ==
    LET s1 == add_message(s, USER, user_input)
    IN IF ~HasGetMessagesForAi
         THEN \* AttributeError, caught by the helper's own handler
              {Turn(s1, "response", AnalysisFailedResponse, log, s.data)}
       ELSE { IF legacy = "fail"
                THEN Turn(s1, "response", AnalysisFailedResponse,
                          Append(log, AiEvent("legacy", FALSE)), s.data)
              ELSE IF legacy = "json_both"
                THEN Turn(update_search_criteria(s1, LegacyParams), "dict", NoResponse,
                          Append(log, AiEvent("legacy", TRUE)), s.data)
              ELSE Turn(add_message(s1, ASSISTANT, "legacy_text"), "response",
                        SearchResponseModel("partial", "legacy_text", <<>>,
                                            <<"need_more_info">>, {"fallback_used"}),
                        Append(log, AiEvent("legacy", TRUE)), s.data)
              : legacy \in LegacyReplies }

\* generate_follow_up_question returns its canned question when the call fails.
_request_more_info(s, missing_info, log) ==
    { LET follow_up == IF followup_ok THEN "followup_model" ELSE "followup_canned"
          s1 == add_message(s, ASSISTANT, follow_up)
      IN Turn(s1, "response",
              SearchResponseModel("partial", follow_up, <<>>, missing_info,
                                  {"needs_more_info"}),
              Append(log, AiEvent("followup", followup_ok)), s.data)
      : followup_ok \in BOOLEAN }

\* search_engine.search_restaurants swallows a failing query and returns [].
RestaurantSearchEngine_search_restaurants(search) ==
    IF ~search.ok THEN <<>> ELSE search.rows

\* generate_search_response returns a canned message when the call fails.
_build_search_response(s, restaurants, log) ==
    { LET message == IF response_ok THEN "search_msg_model" ELSE "search_msg_canned"
          s1 == add_message(s, ASSISTANT, message)
      IN Turn(s1, "response",
              SearchResponseModel(IF restaurants # <<>> THEN "success" ELSE "partial",
                                  message, restaurants, <<>>,
                                  {"conversation_status_completed"}),
              Append(log, AiEvent("search_response", response_ok)), s.data)
      : response_ok \in BOOLEAN }

_execute_search(s, log) ==
    IF ~IsNumber(s.data.radius)
      THEN \* radius / 1000 raises TypeError: the route's handler answers
           {Turn(prepare_for_new_conversation(s), "response", ErrorResponse, log, s.data)}
    ELSE UNION { LET restaurants == RestaurantSearchEngine_search_restaurants(search)
                     log1 == Append(log, SearchEvent(search.ok))
                 IN { [t EXCEPT !.session = _cleanup_session(t.session)] :
                        t \in _build_search_response(s, restaurants, log1) }
                 : search \in SearchOutcomes }

search_restaurants_app(s_in, user_input, reply) ==
    LET user_session == get_or_create(s_in)
        ai_analysis == analyze_user_intent(reply)
        log0 == <<AiEvent("intent", reply.kind # "fail")>>
    IN IF ~ai_analysis.success
         THEN _handle_analysis_failure(user_session, user_input, log0)
       ELSE
         LET s1 == update_search_criteria(user_session, ai_analysis.extracted_info)
             s2 == add_message(s1, USER, user_input)
             missing_info == _get_missing_required_fields(s2, ai_analysis)
         IN IF missing_info # <<>>
              THEN _request_more_info(s2, missing_info, log0)
            ELSE _execute_search(s2, log0)

(***************************************************************************)
(* app/ai/api/routes.py                                                    *)
(***************************************************************************)
\* app/ai/services/gemini_ai_service.py returns whatever JSON it parsed, so
\* a JSON array reaches the route, whose ai_analysis.get then raises.
analyze_user_intent_ai(reply) ==
    IF reply.kind = "dict" THEN ParsedAnalysis(reply)
    ELSE IF reply.kind = "nondict" THEN [FailedAnalysis EXCEPT !.isdict = FALSE]
    ELSE FailedAnalysis

\* int(float(value)) of a string
NumericStrings == {"3000"}
ToInt(str) == IF str = "3000" THEN 3000 ELSE 0

\* Values the reply can also hold: a float, the float infinity (json.loads
\* reads Infinity), and a value that is neither number nor string (a list).
JFloat(n) == [k |-> "float", n |-> n, s |-> ""]
JInfinity == [k |-> "float", n |-> 0, s |-> "inf"]
JList == [k |-> "list", n |-> 0, s |-> ""]

IntegerKeys == {"radius", "price_level"}
FloatKeys == {"rating_min", "latitude", "longitude"}
TextKeys == {"cuisine", "query", "address"}

\* float(value) of a string succeeds: a decimal number, or "inf".
FloatStrings == NumericStrings \cup {"inf"}

\* The conversion of one field raises ValueError or TypeError, which the
\* loop catches: a string that float() rejects.
ConversionFails(key, v) ==
    key \in IntegerKeys \cup FloatKeys /\ v.k = "str" /\ v.s \notin FloatStrings

\* int(float(value)) of an infinite value raises OverflowError, which the
\* loop does not catch.
ConversionOverflows(key, v) ==
    /\ key \in IntegerKeys
    /\ \/ v.k = "str" /\ v.s = "inf"
       \/ v = JInfinity

\* The converted value of one field: only str and float values are turned
\* into an int, only str and int values into a float; a value of any other
\* type is stored as it is.
ConvertedValue(key, v) ==
    IF key \in IntegerKeys
    THEN IF v.k = "str" THEN JInt(ToInt(v.s))
         ELSE IF v.k = "float" THEN JInt(v.n)
         ELSE v
    ELSE IF key \in FloatKeys
    THEN IF v.k = "str" THEN (IF v.s = "inf" THEN JInfinity ELSE JFloat(ToInt(v.s)))
         ELSE IF v.k = "int" THEN JFloat(v.n)
         ELSE v
    ELSE IF key \in TextKeys
    THEN IF v.k = "str" THEN v ELSE JStr("str_of_value")
    ELSE v

\* Whether the call leaves its loop with an exception.
_safe_convert_extracted_info_raises(extracted_info) ==
    \E key \in DOMAIN extracted_info : ConversionOverflows(key, extracted_info[key])

\* Each field is converted on its own; a null or unconvertible one is left out.
_safe_convert_extracted_info(extracted_info) ==
    LET Named == IntegerKeys \cup FloatKeys \cup TextKeys
        Kept(key) ==
            LET v == extracted_info[key]
            IN  IF key \in Named
                THEN v.k # "null" /\ ~ConversionFails(key, v)
                ELSE TRUE
    IN [key \in {k2 \in DOMAIN extracted_info : Kept(k2)} |->
           ConvertedValue(key, extracted_info[key])]

\* The service has no legacy_restaurant_search: the canned reply is used,
\* it is not JSON, and it is appended as the assistant's answer.
_handle_analysis_failure_ai(s, user_input, log) ==
    LET s1 == add_message(s, USER, user_input)
        s2 == add_message(s1, ASSISTANT, "legacy_canned")
    IN {Turn(s2, "response",
             SearchResponseModel("partial", "legacy_canned", <<>>,
                                 <<"need_more_info">>, {"fallback_used"}),
             log, s.data)}

\* generate_follow_up_question raises NotImplementedError: the helper's
\* handler answers, and nothing is appended to the history.
_request_more_info_ai(s, missing_info, log) ==
    {Turn(s, "response",
          SearchResponseModel("partial", "followup_fallback", <<>>, missing_info,
                              {"error"}),
          log, s.data)}

\* DatabaseRestaurantRepository.search_restaurants swallows a failing query
\* and returns [].
DatabaseRestaurantRepository_search_restaurants(search) ==
    IF ~search.ok THEN <<>> ELSE search.rows

_build_search_response_ai(s, restaurants, log) ==
    { LET message == IF response_ok THEN "search_msg_model" ELSE "search_msg_canned"
          s1 == add_message(s, ASSISTANT, message)
      IN Turn(s1, "response",
              SearchResponseModel(IF restaurants # <<>> THEN "success" ELSE "partial",
                                  message, restaurants, <<>>,
                                  {"database_search", "conversation_status_completed"}),
              Append(log, AiEvent("search_response", response_ok)), s.data)
      : response_ok \in BOOLEAN }

_execute_database_search(s, log) ==
    UNION { LET restaurants == DatabaseRestaurantRepository_search_restaurants(search)
                log1 == Append(log, SearchEvent(search.ok))
            IN { [t EXCEPT !.session = _cleanup_session(t.session)] :
                   t \in _build_search_response_ai(s, restaurants, log1) }
            : search \in SearchOutcomes }

search_restaurants_ai(s_in, user_input, reply) ==
    LET user_session == get_or_create(s_in)
        ai_analysis == analyze_user_intent_ai(reply)
        log0 == <<AiEvent("intent", reply.kind # "fail")>>
    IN IF ~ai_analysis.isdict
         THEN \* AttributeError in the route: its handler resets and answers
              {Turn(prepare_for_new_conversation(user_session), "response",
                    ErrorResponse, log0, user_session.data)}
       ELSE IF ~ai_analysis.success
         THEN _handle_analysis_failure_ai(user_session, user_input, log0)
       ELSE
         LET safe_extracted_info == _safe_convert_extracted_info(ai_analysis.extracted_info)
             s1 == update_search_criteria(user_session, safe_extracted_info)
             s2 == add_message(s1, USER, user_input)
             missing_info == _get_missing_required_fields(s2, ai_analysis)
         IN IF missing_info # <<>>
              THEN _request_more_info_ai(s2, missing_info, log0)
            ELSE _execute_database_search(s2, log0)

(***************************************************************************)
(* api/routes.py                                                           *)
(***************************************************************************)
\* generate_response raises ("fail"), or returns a question to the user,
\* plain text, or the criteria as JSON.
GenerateReplies == {"fail", "question", "plain", "json"}

\* a check that never finds a question
check_if_ai_has_follow_up_questions_never(ai_response) == FALSE

check_if_ai_has_follow_up_questions(ai_response) == ai_response = "question"

\* RestaurantService.process_search_request always searches, and answers
\* with no restaurants when anything in it raises.
process_search_request(search) == IF ~search.ok THEN <<>> ELSE search.rows

\* convert_ok: building the RestaurantResponse list succeeds; when it raises
\* the history may already have been cleared.
search_restaurants_api(s_in, user_input, ai_response, search, convert_ok) ==
    LET user_session == get_or_create(s_in)
        s1 == add_message(user_session, USER, user_input)
    IN IF ai_response = "fail"
         THEN Turn(rollback_last_messages(s1, 2), "raised", NoResponse,
                   <<AiEvent("generate", FALSE)>>, user_session.data)
       ELSE
         LET s2 == add_message(s1, ASSISTANT, ai_response)
             recommendations == process_search_request(search)
             has_recommendations == recommendations # <<>>
             has_follow_up_questions == check_if_ai_has_follow_up_questions(ai_response)
             cleared == has_recommendations /\ ~has_follow_up_questions
             s3 == IF cleared THEN clear_history(s2) ELSE s2
             log == <<AiEvent("generate", TRUE), SearchEvent(search.ok)>>
         IN IF has_recommendations /\ ~convert_ok
              THEN Turn(rollback_last_messages(s3, 2), "raised", NoResponse, log,
                        user_session.data)
            ELSE Turn(s3, "response",
                      SearchResponseModel(IF has_recommendations THEN "success" ELSE "partial",
                                          ai_response, recommendations, <<>>,
                                          {"ai_processed"} \cup
                                            (IF cleared THEN {"history_cleared"} ELSE {})),
                      log, user_session.data)

(***************************************************************************)
(* api/routes_alternative.py                                               *)
(***************************************************************************)
\* No session and no model call; an exception in the handler (converting a
\* restaurant to the response model) becomes HTTP 500.
search_restaurants_v2(s_in, search, convert_ok) ==
    LET recommendations == process_search_request(search)
    IN IF recommendations # <<>> /\ ~convert_ok
         THEN Turn(s_in, "http500", NoResponse, <<SearchEvent(search.ok)>>, s_in.data)
       ELSE Turn(s_in, "response",
                 SearchResponseModel(IF recommendations # <<>> THEN "success" ELSE "partial",
                                     "found_n", recommendations, <<>>, {"location_data"}),
                 <<SearchEvent(search.ok)>>, s_in.data)

(***************************************************************************)
(* app/api/restaurant_routes.py                                            *)
(***************************************************************************)
SmartRadiusVals == {JNull, JInt(2000)}
SmartDefaultRadius == 1000
SmartFallbackConfidence == 3
LocationTypes == {"none", "coordinates"}

\* reply of the model: the call raises, text that is not JSON, or a JSON
\* object in which radius_meters is absent, null or a number.
SmartReplies ==
    {[kind |-> kind, has_radius |-> FALSE, radius_meters |-> JNull, confidence |-> 0] :
        kind \in {"fail", "nonjson"}}
    \cup {[kind |-> "dict", has_radius |-> FALSE, radius_meters |-> JNull, confidence |-> c] :
            c \in {5, 9}}
    \cup {[kind |-> "dict", has_radius |-> TRUE, radius_meters |-> r, confidence |-> c] :
            r \in SmartRadiusVals, c \in {5, 9}}

_get_fallback_params ==
    [success |-> TRUE, radius_meters |-> JInt(SmartDefaultRadius),
     confidence |-> SmartFallbackConfidence]

\* Only an absent field gets its default; a null one is kept.
smart_analyze_user_input(reply) ==
    IF reply.kind # "dict" THEN _get_fallback_params
    ELSE [success |-> TRUE,
          radius_meters |-> IF reply.has_radius THEN reply.radius_meters
                            ELSE JInt(SmartDefaultRadius),
          confidence |-> reply.confidence]

\* RestaurantService of app/services has no _post_process_restaurants method
\* (its only mention there is a commented-out call).
HasPostProcessRestaurants == FALSE

\* Every exception is caught and answered with no restaurants and an "error"
\* entry; a failing query is swallowed by the repository before that.  The
\* call of _post_process_restaurants that follows the query raises
\* AttributeError, which is caught in the same way.
_execute_smart_search(location, search_params, search) ==
    IF location = "coordinates" /\ ~IsNumber(search_params.radius_meters)
      THEN [restaurants |-> <<>>, error |-> TRUE, raised |-> "TypeError", log |-> <<>>]
    ELSE IF ~HasPostProcessRestaurants
      THEN [restaurants |-> <<>>, error |-> TRUE, raised |-> "AttributeError",
            log |-> <<SearchEvent(search.ok)>>]
    ELSE [restaurants |-> DatabaseRestaurantRepository_search_restaurants(search),
          error |-> FALSE, raised |-> "none", log |-> <<SearchEvent(search.ok)>>]

_build_smart_response(search_result, confidence) ==
    LET restaurants == search_result.restaurants
        message == IF restaurants # <<>>
                     THEN (IF confidence > 8 THEN "found_n" ELSE "recommend_n")
                     ELSE "none_found"
    IN SearchResponseModel(IF restaurants # <<>> THEN "success" ELSE "partial",
                           message, restaurants, <<>>,
                           {"search_completed"} \cup
                             (IF search_result.error THEN {"fallback_used"} ELSE {}))

search_restaurants_smart(s_in, user_input, reply, location, search) ==
    LET user_session == get_or_create(s_in)
        analysis_result == smart_analyze_user_input(reply)
        s1 == add_message(user_session, USER, user_input)
        search_result == _execute_smart_search(location, analysis_result, search)
        response == _build_smart_response(search_result, analysis_result.confidence)
        s2 == add_message(s1, ASSISTANT, response.message)
    IN Turn(s2, "response", response,
            <<AiEvent("smart", reply.kind # "fail")>> \o search_result.log,
            user_session.data)

(***************************************************************************)
(* Actions: one /search turn of each variant                               *)
(***************************************************************************)
PreHistory == get_or_create(session).history

Record(t, kind, success, confidence, missing_info) ==
    [outcome |-> t.outcome, resp |-> t.resp, log |-> t.log, merged |-> t.merged,
     pre |-> PreHistory, reply |-> kind, success |-> success,
     confidence |-> confidence, missing_info |-> missing_info]

SearchTurnApp ==
    /\ variant = "app"
    /\ Len(PreHistory) <= MaxHistory
    /\ \E user_input \in UserInputs, reply \in IntentReplies :
         \E t \in search_restaurants_app(session, user_input, reply) :
            LET a == analyze_user_intent(reply)
            IN /\ session' = t.session
               /\ last' = Record(t, reply.kind, a.success, a.confidence, a.missing_info)
    /\ UNCHANGED <<variant, poolVars, storeVars, callVars>>

SearchTurnAi ==
    /\ variant = "ai"
    /\ Len(PreHistory) <= MaxHistory
    /\ \E user_input \in UserInputs, reply \in IntentReplies :
         \E t \in search_restaurants_ai(session, user_input, reply) :
            LET a == analyze_user_intent_ai(reply)
            IN /\ session' = t.session
               /\ last' = Record(t, reply.kind, a.success, a.confidence, a.missing_info)
    /\ UNCHANGED <<variant, poolVars, storeVars, callVars>>

SearchTurnApi ==
    /\ variant = "api"
    /\ Len(PreHistory) <= MaxHistory
    /\ \E user_input \in UserInputs, ai_response \in GenerateReplies,
          search \in SearchOutcomes, convert_ok \in BOOLEAN :
         LET t == search_restaurants_api(session, user_input, ai_response, search,
                                         convert_ok)
         IN /\ session' = t.session
            /\ last' = Record(t, ai_response, FALSE, 0, <<>>)
    /\ UNCHANGED <<variant, poolVars, storeVars, callVars>>

SearchTurnAlt ==
    /\ variant = "alt"
    /\ \E search \in SearchOutcomes, convert_ok \in BOOLEAN :
         LET t == search_restaurants_v2(session, search, convert_ok)
         IN /\ session' = t.session
            /\ last' = Record(t, "none", FALSE, 0, <<>>)
    /\ UNCHANGED <<variant, poolVars, storeVars, callVars>>

SearchTurnSmart ==
    /\ variant = "smart"
    /\ Len(PreHistory) <= MaxHistory
    /\ \E user_input \in UserInputs, reply \in SmartReplies,
          location \in LocationTypes, search \in SearchOutcomes :
         LET t == search_restaurants_smart(session, user_input, reply, location, search)
         IN /\ session' = t.session
            /\ last' = Record(t, reply.kind, TRUE, reply.confidence, <<>>)
    /\ UNCHANGED <<variant, poolVars, storeVars, callVars>>

\* POST /session/{user_id}/clear of the multi-turn variants
clear_session ==
    /\ variant \in {"app", "ai"}
    /\ session' = reset_search_criteria(clear_history(get_or_create(session)))
    /\ last' = NoTurn
    /\ UNCHANGED <<variant, poolVars, storeVars, callVars>>

Variants == {"app", "ai", "api", "alt", "smart"}

Init ==
    /\ variant \in Variants
    /\ session = NoSession
    /\ last = NoTurn
    /\ dbPool = 0
    /\ pools = <<>>
    /\ calls = <<>>
    /\ now = 0
    /\ sessions = <<>>
    /\ ret = "none"
    /\ input = "none"
    /\ output = "none"

Next ==
    \/ SearchTurnApp
    \/ SearchTurnAi
    \/ SearchTurnApi
    \/ SearchTurnAlt
    \/ SearchTurnSmart
    \/ clear_session

Spec == Init /\ [][Next]_vars

(***************************************************************************)
(* Properties of a /search turn, stated on the record of the last turn     *)
(***************************************************************************)
LogIndex == 1..Len(last.log)
FailedAiCall(i) == last.log[i].op = "ai" /\ ~last.log[i].ok
SearchRan == \E i \in LogIndex : last.log[i].op = "search"
SearchFailed == \E i \in LogIndex : last.log[i].op = "search" /\ ~last.log[i].ok
Answered == last.outcome = "response"
Completed == Answered /\ "conversation_status_completed" \in last.resp.metadata
MultiTurn == variant \in {"app", "ai"}
NewConversationMarker == ChatMessage(SYSTEM, "new_conversation")
HasUserOrAssistant(h) == \E i \in 1..Len(h) : h[i].role \in {USER, ASSISTANT}

\* the fixed texts of the code, as opposed to text the model wrote
GenericMessages == {"error_generic", "error_not_understood"}
CannedMessages ==
    GenericMessages \cup {"followup_canned", "followup_fallback", "legacy_canned",
                          "search_msg_canned"}
SmartTemplates == {"found_n", "recommend_n", "none_found"}

\* C1 as stated: in the app and ai routes, after a turn that ran the search
\* and returned the completed response, the history has length 0 and the
\* criteria equal the defaults.
C1_EmptyHistoryAfterCompleted ==
    (MultiTurn /\ Completed) =>
        /\ Len(session.history) = 0
        /\ session.data = SearchCriteria

\* C1 (amended): in the app and ai routes, after a turn that ran the search
\* and returned the completed response, the history holds exactly the one
\* system marker that opens the next conversation, no user or assistant
\* message, and the criteria equal the defaults.
C1_MarkerOnlyAfterCompleted ==
    (MultiTurn /\ Completed) =>
        /\ session.history = <<NewConversationMarker>>
        /\ session.data = SearchCriteria

\* a completed app turn with restaurants, started on non-default criteria
C1_Witness ==
    /\ variant = "app"
    /\ Completed
    /\ last.resp.recommendations # <<>>
    /\ last.merged # SearchCriteria
    /\ SearchRan

\* C2: in every variant, a turn that ends by asking a follow-up question
\* runs no repository search, returns no recommendations, and leaves the
\* follow-up question as the last message of the history, right after the
\* user's message.
FollowUpTurn ==
    /\ Answered
    /\ \/ last.resp.missing_fields # <<>>
       \/ variant = "api" /\ last.reply = "question"

C2_FollowUpTurnAsksOnly ==
    FollowUpTurn =>
        /\ ~SearchRan
        /\ last.resp.recommendations = <<>>
        /\ Len(session.history) >= 2
        /\ session.history[Len(session.history)] =
               ChatMessage(ASSISTANT, last.resp.message)
        /\ session.history[Len(session.history) - 1].role = USER

\* C3: in the app route, a turn whose analysis succeeded runs the
\* repository search iff after the merge cuisine and radius both have a
\* value and the confidence is at least 0.8 or missing_info is empty;
\* otherwise it asks a follow-up question.
\* "has a value" read as the code reads it: not None, not 0, not empty
HasValue(v) == Truthy(v)
AnalysedTurn == variant = "app" /\ last.reply = "dict" /\ last.success

C3_SearchIffCriteriaComplete ==
    AnalysedTurn =>
        LET ready == /\ HasValue(last.merged.cuisine)
                     /\ HasValue(last.merged.radius)
                     /\ \/ last.confidence >= ConfidenceThreshold
                        \/ last.missing_info = <<>>
        IN /\ SearchRan <=> ready
           /\ ~ready => (Answered /\ "needs_more_info" \in last.resp.metadata)

\* C4: in api/routes.py, when a turn raises, the history after the
\* handler's rollback equals the history before the turn.
C4_RollbackRestoresHistory ==
    (variant = "api" /\ last.outcome = "raised") =>
        session.history = last.pre

C6_ErrorLeavesSessionReset ==
    (MultiTurn /\ Answered /\ last.resp.type = "error") =>
        /\ ~HasUserOrAssistant(session.history)
        /\ session.data = SearchCriteria

\* C8: if the intent reply is not JSON, the analysis has success false and
\* a missing_info naming cuisine and radius, and the app route answers
\* with a partial response without recommendations, without raising.
InSeq(x, q) == \E i \in 1..Len(q) : q[i] = x

C8_NonJsonAsksClarification ==
    (variant = "app" /\ last.reply = "nonjson") =>
        /\ ~last.success
        /\ InSeq("cuisine", last.missing_info)
        /\ InSeq("radius", last.missing_info)
        /\ Answered
        /\ last.resp.type = "partial"
        /\ last.resp.recommendations = <<>>

C10_FailedQueryIsFlagged ==
    (SearchFailed /\ Answered) =>
        /\ last.resp.type \in {"success", "partial"}
        /\ last.resp.recommendations = <<>>
        /\ "error" \in last.resp.metadata \/ "fallback_used" \in last.resp.metadata

(***************************************************************************)
(* app/repositories/database_restaurant_repo.py and the pool of            *)
(* app/ai/core/db_manager.py: concurrent repository calls, one step per    *)
(* stretch of code between two awaits.                                     *)
(*   dbPool  db_manager.pool: 0 for None, else the index of a pool         *)
(*   pools   per created pool, the calls holding one of its connections    *)
(*   calls   per call: pc, the pool its acquire() was issued on (target),  *)
(*           the pool its connection came from (conn, 0 for None), the     *)
(*           pool that took the connection back (released, 0 for none),    *)
(*           and the number of release attempts                            *)
(***************************************************************************)
CallIds == 1..MaxCalls

IdleCall == [pc |-> "idle", target |-> 0, conn |-> 0, released |-> 0, attempts |-> 0]

\* search_restaurants / get_restaurant_by_id is called: conn = None
call_start(c) ==
    /\ calls[c].pc = "idle"
    /\ calls' = [calls EXCEPT ![c].pc = "get_connection"]
    /\ UNCHANGED <<dbPool, pools, routeVars, storeVars, callVars>>

\* get_connection up to its first await: with no pool it starts create_pool,
\* otherwise it issues acquire() on the pool of that moment
get_connection(c) ==
    /\ calls[c].pc = "get_connection"
    /\ calls' = IF dbPool = 0
                  THEN [calls EXCEPT ![c].pc = "create_pool"]
                  ELSE [calls EXCEPT ![c].pc = "acquire", ![c].target = dbPool]
    /\ UNCHANGED <<dbPool, pools, routeVars, storeVars, callVars>>

\* asyncpg.create_pool returns: the pool is stored, and acquire() is issued
\* on it before the next await
create_pool(c) ==
    /\ calls[c].pc = "create_pool"
    /\ Len(pools) < MaxPools
    /\ pools' = Append(pools, {})
    /\ dbPool' = Len(pools) + 1
    /\ calls' = [calls EXCEPT ![c].pc = "acquire", ![c].target = Len(pools) + 1]
    /\ UNCHANGED <<routeVars, storeVars, callVars>>

\* asyncpg.create_pool raises: the call's except answers, conn is still None
create_pool_fails(c) ==
    /\ calls[c].pc = "create_pool"
    /\ calls' = [calls EXCEPT ![c].pc = "finally"]
    /\ UNCHANGED <<dbPool, pools, routeVars, storeVars, callVars>>

\* pool.acquire() returns a connection of the pool it was issued on
acquire(c) ==
    /\ calls[c].pc = "acquire"
    /\ pools' = [pools EXCEPT ![calls[c].target] = @ \cup {c}]
    /\ calls' = [calls EXCEPT ![c].pc = "query", ![c].conn = calls[c].target]
    /\ UNCHANGED <<dbPool, routeVars, storeVars, callVars>>

\* pool.acquire() raises
acquire_fails(c) ==
    /\ calls[c].pc = "acquire"
    /\ calls' = [calls EXCEPT ![c].pc = "finally"]
    /\ UNCHANGED <<dbPool, pools, routeVars, storeVars, callVars>>

\* conn.fetch / conn.fetchrow returns or raises: either way on to finally
query(c) ==
    /\ calls[c].pc = "query"
    /\ calls' = [calls EXCEPT ![c].pc = "finally"]
    /\ UNCHANGED <<dbPool, pools, routeVars, storeVars, callVars>>

\* finally: if conn: await self.db_manager.pool.release(conn).  The pool is
\* the one stored at this moment; a pool refuses a connection that is not
\* its own, and the connection then stays checked out.
release(c) ==
    /\ calls[c].pc = "finally"
    /\ IF calls[c].conn = 0
         THEN /\ calls' = [calls EXCEPT ![c].pc = "returned"]
              /\ UNCHANGED pools
       ELSE IF dbPool = calls[c].conn
         THEN /\ pools' = [pools EXCEPT ![dbPool] = @ \ {c}]
              /\ calls' = [calls EXCEPT ![c].pc = "returned", ![c].released = dbPool,
                                        ![c].attempts = @ + 1]
       ELSE /\ calls' = [calls EXCEPT ![c].pc = "returned", ![c].attempts = @ + 1]
            /\ UNCHANGED pools
    /\ UNCHANGED <<dbPool, routeVars, storeVars, callVars>>

InitPool ==
    /\ variant = "repository"
    /\ session = NoSession
    /\ last = NoTurn
    /\ dbPool = 0
    /\ pools = <<>>
    /\ calls = [c \in CallIds |-> IdleCall]
    /\ now = 0
    /\ sessions = <<>>
    /\ ret = "none"
    /\ input = "none"
    /\ output = "none"

NextPool ==
    \E c \in CallIds :
        \/ call_start(c)
        \/ get_connection(c)
        \/ create_pool(c)
        \/ create_pool_fails(c)
        \/ acquire(c)
        \/ acquire_fails(c)
        \/ query(c)
        \/ release(c)

SpecPool == InitPool /\ [][NextPool]_vars

\* C7: every connection that was acquired is released exactly once, to the
\* pool it was acquired from, before its call returns; no release is
\* attempted when acquisition failed; once all calls have returned no
\* connection is checked out.
C7_ReleasedToOwnPool ==
    /\ \A c \in CallIds :
          calls[c].pc = "returned" =>
              IF calls[c].conn = 0
                THEN calls[c].attempts = 0
                ELSE calls[c].attempts = 1 /\ calls[c].released = calls[c].conn
    /\ (\A c \in CallIds : calls[c].pc = "returned") =>
          \A p \in 1..Len(pools) : pools[p] = {}

(***************************************************************************)
(* Sessions in time: app/models/user_session.py and models/user_session.py *)
(* with created_at / updated_at, kept in the InMemorySessionRepository of  *)
(* shared/utils/in_memory_repo.py.                                         *)
(*   now       the reading of datetime.now(), in ticks; it never goes back *)
(*   sessions  repository.sessions: user id -> session                     *)
(*   ret       what the last operation saw and did, when it was a get,     *)
(*             list_all or get_or_create                                   *)
(***************************************************************************)
MaxClock == 2
\* session_timeout, in ticks
SessionTimeout == 1

UserIds == {"u1", "u2"}
CriteriaUpdates == {[radius |-> JInt(3000)]}
RollbackCounts == {0, 1, 2}

\* UserSession(user_id): created_at and updated_at are two readings of the clock
TimedUserSession(t1, t2) ==
    [history |-> <<>>, data |-> SearchCriteria, created_at |-> t1, updated_at |-> t2]

\* a timestamp update that is left out
_update_timestamp_skipped(s, t) == s

_update_timestamp(s, t) == [s EXCEPT !.updated_at = t]

\* the session methods, each with the clock reading t of its call
add_message_at(s, role, content, t) ==
    _update_timestamp(add_message(s, role, content), t)

clear_history_at(s, t) == _update_timestamp(clear_history(s), t)

update_search_criteria_at(s, kwargs, t) ==
    _update_timestamp(update_search_criteria(s, kwargs), t)

reset_search_criteria_at(s, t) == _update_timestamp(reset_search_criteria(s), t)

prepare_for_new_conversation_at(s, t) ==
    add_message_at(reset_search_criteria_at(clear_history_at(s, t), t),
                   SYSTEM, "new_conversation", t)

\* with count <= 0 the method returns before touching anything
rollback_last_messages_at(s, count, t) ==
    IF count <= 0 THEN s
    ELSE _update_timestamp(rollback_last_messages(s, count), t)

\* (now - s.updated_at).total_seconds() > self.session_timeout
IsExpired(s, t) == t - s.updated_at > SessionTimeout

\* a cleanup that also drops the sessions idle for exactly the timeout
_cleanup_expired_at_timeout(store, t) ==
    [u \in {v \in DOMAIN store : t - store[v].updated_at < SessionTimeout} |-> store[u]]

_cleanup_expired(store, t) ==
    [u \in {v \in DOMAIN store : ~IsExpired(store[v], t)} |-> store[u]]

\* self.sessions[session.user_id] = session
save(store, u, s) ==
    [v \in DOMAIN store \cup {u} |-> IF v = u THEN s ELSE store[v]]

\* what a store operation observed: the idle time of every session it found,
\* the users left after its cleanup, whether it returned a stored session
\* for its user, and whether it created one
StoreRet(op, u, store, after, t, created) ==
    [op |-> op, user |-> u,
     idle |-> [v \in DOMAIN store |-> t - store[v].updated_at],
     kept |-> DOMAIN after,
     found |-> u \in DOMAIN after,
     created |-> created]

NoRet == [op |-> "none", user |-> "none", idle |-> <<>>, kept |-> {},
          found |-> FALSE, created |-> FALSE]

tick ==
    /\ now < MaxClock
    /\ now' = now + 1
    /\ ret' = NoRet
    /\ UNCHANGED <<sessions, routeVars, poolVars, callVars>>

\* InMemorySessionRepository.get
repo_get(u) ==
    LET after == _cleanup_expired(sessions, now)
    IN /\ sessions' = after
       /\ ret' = StoreRet("get", u, sessions, after, now, FALSE)
       /\ UNCHANGED <<now, routeVars, poolVars, callVars>>

\* InMemorySessionRepository.list_all
repo_list_all ==
    LET after == _cleanup_expired(sessions, now)
    IN /\ sessions' = after
       /\ ret' = StoreRet("list_all", "none", sessions, after, now, FALSE)
       /\ UNCHANGED <<now, routeVars, poolVars, callVars>>

\* InMemorySessionRepository.delete
repo_delete(u) ==
    /\ u \in DOMAIN sessions
    /\ sessions' = [v \in DOMAIN sessions \ {u} |-> sessions[v]]
    /\ ret' = NoRet
    /\ UNCHANGED <<now, routeVars, poolVars, callVars>>

\* SessionService.get_or_create: get, and when nothing is returned a new
\* session; the clock may advance between its two default timestamps
session_get_or_create(u) ==
    /\ UNCHANGED <<routeVars, poolVars, callVars>>
    /\ LET after == _cleanup_expired(sessions, now)
       IN IF u \in DOMAIN after
            THEN /\ sessions' = after
                 /\ ret' = StoreRet("get_or_create", u, sessions, after, now, FALSE)
                 /\ UNCHANGED now
          ELSE \E t2 \in {now, Min(now + 1, MaxClock)} :
                 /\ sessions' = save(after, u, TimedUserSession(now, t2))
                 /\ now' = t2
                 /\ ret' = StoreRet("get_or_create", u, sessions, after, now, TRUE)

session_add_message(u) ==
    /\ u \in DOMAIN sessions
    /\ Len(sessions[u].history) < MaxHistory
    /\ sessions' = [sessions EXCEPT ![u] = add_message_at(@, USER, "in1", now)]
    /\ ret' = NoRet
    /\ UNCHANGED <<now, routeVars, poolVars, callVars>>

session_clear_history(u) ==
    /\ u \in DOMAIN sessions
    /\ sessions' = [sessions EXCEPT ![u] = clear_history_at(@, now)]
    /\ ret' = NoRet
    /\ UNCHANGED <<now, routeVars, poolVars, callVars>>

session_rollback_last_messages(u) ==
    /\ u \in DOMAIN sessions
    /\ \E count \in RollbackCounts :
          sessions' = [sessions EXCEPT ![u] = rollback_last_messages_at(@, count, now)]
    /\ ret' = NoRet
    /\ UNCHANGED <<now, routeVars, poolVars, callVars>>

session_update_search_criteria(u) ==
    /\ u \in DOMAIN sessions
    /\ \E kwargs \in CriteriaUpdates :
          sessions' = [sessions EXCEPT ![u] = update_search_criteria_at(@, kwargs, now)]
    /\ ret' = NoRet
    /\ UNCHANGED <<now, routeVars, poolVars, callVars>>

session_reset_search_criteria(u) ==
    /\ u \in DOMAIN sessions
    /\ sessions' = [sessions EXCEPT ![u] = reset_search_criteria_at(@, now)]
    /\ ret' = NoRet
    /\ UNCHANGED <<now, routeVars, poolVars, callVars>>

session_prepare_for_new_conversation(u) ==
    /\ u \in DOMAIN sessions
    /\ sessions' = [sessions EXCEPT ![u] = prepare_for_new_conversation_at(@, now)]
    /\ ret' = NoRet
    /\ UNCHANGED <<now, routeVars, poolVars, callVars>>

InitStore ==
    /\ variant = "sessions"
    /\ session = NoSession
    /\ last = NoTurn
    /\ dbPool = 0
    /\ pools = <<>>
    /\ calls = <<>>
    /\ now = 0
    /\ sessions = <<>>
    /\ ret = NoRet
    /\ input = "none"
    /\ output = "none"

NextStore ==
    \/ tick
    \/ repo_list_all
    \/ \E u \in UserIds :
          \/ repo_get(u)
          \/ repo_delete(u)
          \/ session_get_or_create(u)
          \/ session_add_message(u)
          \/ session_clear_history(u)
          \/ session_rollback_last_messages(u)
          \/ session_update_search_criteria(u)
          \/ session_reset_search_criteria(u)
          \/ session_prepare_for_new_conversation(u)

SpecStore == InitStore /\ [][NextStore]_vars

\* C11: with a clock that never goes back, updated_at never decreases, is
\* never earlier than created_at (nor later than the clock), and equals the
\* current time after every call that changed the history or the criteria.
TimestampsOrdered ==
    \A u \in DOMAIN sessions :
        /\ sessions[u].created_at <= sessions[u].updated_at
        /\ sessions[u].updated_at <= now

TimestampStep ==
    \A u \in DOMAIN sessions \cap DOMAIN sessions' :
        /\ sessions'[u].updated_at >= sessions[u].updated_at
        /\ (\/ sessions'[u].history # sessions[u].history
            \/ sessions'[u].data # sessions[u].data)
               => sessions'[u].updated_at = now'

C11_UpdatedAtFollowsClock == []TimestampsOrdered /\ [][TimestampStep]_vars

\* a session changed after the clock moved on since its creation
C11_Witness ==
    \E u \in DOMAIN sessions :
        /\ sessions[u].created_at < sessions[u].updated_at
        /\ sessions[u].history # <<>>
        /\ sessions[u].data # SearchCriteria
        /\ sessions[u].updated_at = now

\* C12: get and list_all (and the get inside get_or_create) first remove
\* exactly the sessions idle for more than session_timeout: every session
\* found is kept iff its idle time is at most the timeout, so get never
\* returns an expired session, and get_or_create creates a new, empty one
\* exactly when none is left for the user.
StoreReads == {"get", "list_all", "get_or_create"}

C12_ExactlyExpiredRemoved ==
    ret.op \in StoreReads =>
        /\ ret.kept \subseteq DOMAIN ret.idle
        /\ \A u \in DOMAIN ret.idle :
              u \in ret.kept <=> ret.idle[u] <= SessionTimeout
        /\ ret.found => ret.idle[ret.user] <= SessionTimeout
        /\ ret.op = "get_or_create" =>
              /\ ret.created <=> ~ret.found
              /\ ret.user \in DOMAIN sessions
              /\ ret.created =>
                    /\ sessions[ret.user].history = <<>>
                    /\ sessions[ret.user].data = SearchCriteria
                    /\ sessions[ret.user].updated_at = now
        /\ ret.op # "get_or_create" => DOMAIN sessions = ret.kept

\* a get that removed one expired session, kept one idle for exactly the
\* timeout, and returned it
C12_Witness ==
    /\ ret.op = "get"
    /\ ret.found
    /\ ret.idle[ret.user] = SessionTimeout
    /\ \E u \in DOMAIN ret.idle : ret.idle[u] > SessionTimeout /\ u \notin DOMAIN sessions


(***************************************************************************)
(* The in-memory restaurant repository (src/services/restaurant_service.py) *)
(* and the functions around it.  Distances are in hundredths of a          *)
(* kilometre, ratings in tenths.  A text field is the set of the search    *)
(* terms it contains, so "term in field" is the substring test.            *)
(***************************************************************************)
CLASSIC == "classic"
NEW_FLAVOR == "new_flavor"

Restaurant(id, name, cuisine, distance_km, rating, price_level, tags, address, description) ==
    [id |-> id, name |-> name, cuisine |-> cuisine, distance_km |-> distance_km,
     rating |-> rating, price_level |-> price_level, tags |-> tags,
     address |-> address, description |-> description]

restaurants ==
    << Restaurant(1, {"sushi"}, "japanese", JInt(250), 45, 3, {CLASSIC, "sushi"},
                  {"taipei", "daan"}, {"japanese", "sushi"}),
       Restaurant(2, {"ramen"}, "japanese", JInt(180), 42, 2, {NEW_FLAVOR, "ramen"},
                  {"taipei", "xinyi"}, {"japanese", "ramen"}),
       Restaurant(3, {}, "sichuan", JInt(320), 43, 2, {CLASSIC, "spicy"},
                  {"taipei", "zhongshan"}, {"sichuan", "spicy"}),
       Restaurant(4, {}, "italian", JInt(280), 46, 3, {CLASSIC},
                  {"taipei", "daan"}, {"italian"}) >>

\* The user positions of the model: the first restaurant's own position
\* (25.0418, 121.5440), a point south of it (25.0330, 121.5435) and a point
\* to the west (25.0478, 121.5170).
UserPoints == {"Pa", "Pb", "Pc"}

\* calculate_distance from a user position to a restaurant of the fixture,
\* rounded to two decimals (the haversine formula evaluated on the fixture's
\* coordinates).
calculate_distance(p, id) ==
    CASE p = "Pa" -> <<0, 237, 147, 50>>[id]
      [] p = "Pb" -> <<98, 221, 229, 98>>[id]
      [] p = "Pc" -> <<280, 515, 184, 330>>[id]

_copy_restaurant_with_distance(r, d) == [r EXCEPT !.distance_km = JInt(d)]

_filter_by_coordinates(rs, p, radius_km) ==
    LET near(r) == calculate_distance(p, r.id) <= radius_km
        filtered == SelectSeq(rs, near)
    IN  [i \in 1..Len(filtered) |->
            _copy_restaurant_with_distance(filtered[i],
                                           calculate_distance(p, filtered[i].id))]

_filter_by_address(rs, address) ==
    LET hit(r) == address \in r.address
    IN  SelectSeq(rs, hit)

_filter_by_query(rs, q) ==
    LET hit(r) == q \in (r.name \cup {r.cuisine} \cup r.description \cup r.tags)
    IN  SelectSeq(rs, hit)

\* The arguments of a search: point is "none" when latitude and longitude are
\* not given; a missing text argument is the empty string, a missing number
\* is null.
SearchArgs ==
    [point : UserPoints \cup {"none"}, radius_km : {JNull, JInt(100), JInt(300)},
     address : {"", "daan", "xinyi"}, query : {"", "sushi", "classic"},
     cuisine : {"", "japanese", "italian"}, price_level : {JNull, JInt(2)},
     min_rating : {JNull, JInt(45)}]

\* search_restaurants: price_level and min_rating arrive in **kwargs and are
\* not read.
RestaurantRepository_search_restaurants(a) ==
    LET r0 == restaurants
        r1 == IF a.point /= "none" /\ a.radius_km /= JNull
              THEN _filter_by_coordinates(r0, a.point, a.radius_km.n)
              ELSE IF a.address /= "" THEN _filter_by_address(r0, a.address)
              ELSE IF a.query /= "" THEN _filter_by_query(r0, a.query)
              ELSE r0
        same(r) == r.cuisine = a.cuisine
    IN  IF a.cuisine /= "" THEN SelectSeq(r1, same) ELSE r1

NoOutput == [fn |-> "none"]

\* One call of the repository's search_restaurants.
repo_search_restaurants ==
    /\ input.fn = "search_restaurants" /\ output = NoOutput
    /\ output' = [fn |-> "search_restaurants",
                  result |-> RestaurantRepository_search_restaurants(input.args)]
    /\ UNCHANGED <<input, routeVars, poolVars, storeVars>>

\* sorted(seq, key=...): Python's stable sort, as an insertion sort that
\* places an element after every element whose key is not larger.
\* The elements are [key, item] pairs.
RECURSIVE sorted_by_key(_, _)
sorted_by_key(seq, acc) ==
    IF seq = <<>> THEN acc
    ELSE LET x == Head(seq)
             k == Cardinality({i \in 1..Len(acc) : acc[i].key <= x.key})
         IN  sorted_by_key(Tail(seq),
                           SubSeq(acc, 1, k) \o <<x>> \o SubSeq(acc, k + 1, Len(acc)))

Items(pairs) == [i \in 1..Len(pairs) |-> pairs[i].item]

\* _search_by_coordinates passes latitude, longitude and radius only.
_search_by_coordinates(p, radius_km) ==
    RestaurantRepository_search_restaurants(
        [point |-> p, radius_km |-> JInt(radius_km), address |-> "", query |-> "",
         cuisine |-> "", price_level |-> JNull, min_rating |-> JNull])

\* Every restaurant of the fixture has coordinates, so each gets the rounded
\* distance from the user position.
_calculate_distances(rs, p) ==
    [i \in 1..Len(rs) |->
        [rs[i] EXCEPT !.distance_km = JInt(calculate_distance(p, rs[i].id))]]

\* The key is the distance alone; a missing distance counts as infinity.
_sort_by_distance(rs) ==
    LET key(r) == IF r.distance_km = JNull THEN 1000000 ELSE r.distance_km.n
    IN  Items(sorted_by_key([i \in 1..Len(rs) |-> [key |-> key(rs[i]), item |-> rs[i]]],
                            <<>>))

_post_process_restaurants(rs, location_type, p) ==
    IF location_type = "coordinates"
    THEN _sort_by_distance(_calculate_distances(rs, p))
    ELSE rs

GeoRadii == {100, 300, 500}

\* A search of RestaurantService for a request that carries coordinates:
\* the engine's search followed by the post-processing.
geo_search ==
    /\ input.fn = "geo_search" /\ output = NoOutput
    /\ output' = [fn |-> "geo_search",
                  result |-> _post_process_restaurants(
                                 _search_by_coordinates(input.args.point, input.args.radius_km),
                                 "coordinates", input.args.point)]
    /\ UNCHANGED <<input, routeVars, poolVars, storeVars>>

\* The criteria of find_by_criteria: radius in metres (null when absent),
\* cuisine ("" when absent), try_new (False by default).
FindCriteria ==
    [radius : {JNull, JInt(0), JInt(2000), JInt(3000), JInt(4000)},
     cuisine : {"", "japanese", "sichuan", "italian"},
     try_new : BOOLEAN]

\* The variant without the tag test.
find_by_criteria_any_tag(criteria) ==
    IF ~Truthy(criteria.radius) \/ criteria.cuisine = "" THEN <<>>
    ELSE LET hit(r) == /\ IsNumber(r.distance_km)
                       /\ r.distance_km.n * 10 <= criteria.radius.n
                       /\ r.cuisine = criteria.cuisine
             key(r) == r.distance_km.n * 100 - r.rating
             results == SelectSeq(restaurants, hit)
         IN  Items(sorted_by_key([i \in 1..Len(results) |->
                                     [key |-> key(results[i]), item |-> results[i]]],
                                 <<>>))

\* find_by_criteria: distance_km <= radius / 1000, the same cuisine, and the
\* tag chosen by try_new; sorted by (distance_km, -rating).
find_by_criteria(criteria) ==
    IF ~Truthy(criteria.radius) \/ criteria.cuisine = "" THEN <<>>
    ELSE LET tag_match(r) == IF criteria.try_new THEN NEW_FLAVOR \in r.tags
                                                 ELSE CLASSIC \in r.tags
             hit(r) == /\ IsNumber(r.distance_km)
                       /\ r.distance_km.n * 10 <= criteria.radius.n
                       /\ r.cuisine = criteria.cuisine
                       /\ tag_match(r)
             key(r) == r.distance_km.n * 100 - r.rating
             results == SelectSeq(restaurants, hit)
         IN  Items(sorted_by_key([i \in 1..Len(results) |->
                                     [key |-> key(results[i]), item |-> results[i]]],
                                 <<>>))

repo_find_by_criteria ==
    /\ input.fn = "find_by_criteria" /\ output = NoOutput
    /\ output' = [fn |-> "find_by_criteria", result |-> find_by_criteria(input.args)]
    /\ UNCHANGED <<input, routeVars, poolVars, storeVars>>

(***************************************************************************)
(* Location strings.  After the spaces are removed a string is the         *)
(* sequence of its comma-separated parts; a part is a label ("" when it    *)
(* has none) followed by a body that is a number or other text.  spaces    *)
(* tells whether the original string had blanks around its parts.          *)
(***************************************************************************)
MaxParts == 3

PartLabels == {"", "lat:", "lng:", "lon:"}
PartBodies == {JInt(25), JInt(121), JStr("abc")}
Parts == [label : PartLabels, body : PartBodies]

RECURSIVE SeqsUpTo(_, _)
SeqsUpTo(S, n) ==
    IF n = 0 THEN {<<>>}
    ELSE LET shorter == SeqsUpTo(S, n - 1)
         IN  shorter \cup {Append(q, x) : q \in {t \in shorter : Len(t) = n - 1}, x \in S}

LocationStrings == [parts : SeqsUpTo(Parts, MaxParts), spaces : BOOLEAN]

\* LocationCoordinates validates its fields: latitude in [-90, 90],
\* longitude in [-180, 180].
LocationCoordinates == [latitude : {25}, longitude : {25, 121}]

\* A request's location: absent, a string, a coordinate object, or a value
\* of another type.
LocationInputs ==
    {[kind |-> "none"], [kind |-> "other"]}
        \cup {[kind |-> "str", str |-> st] : st \in LocationStrings}
        \cup {[kind |-> "coords", coords |-> c] : c \in LocationCoordinates}

is_valid_coordinates(latitude, longitude) ==
    (-90 <= latitude /\ latitude <= 90) /\ (-180 <= longitude /\ longitude <= 180)

\* float(text) succeeds for a part without label whose body is a number.
IsFloat(part) == part.label = "" /\ part.body.k = "int"

First(ps, lbl) == ps[CHOOSE i \in 1..Len(ps) :
                        /\ ps[i].label = lbl
                        /\ \A j \in 1..(i - 1) : ps[j].label /= lbl]

\* The variant that reads the longitude under the label "lon:".
parse_coordinates_string_lon(st) ==
    LET ps == st.parts
        has(lbl) == \E i \in 1..Len(ps) : ps[i].label = lbl
        checked(lat, lon) == IF is_valid_coordinates(lat, lon) THEN <<lat, lon>> ELSE <<>>
    IN  IF ps = <<>> THEN <<>>
        ELSE IF has("lat:") /\ has("lon:")
        THEN IF First(ps, "lat:").body.k = "int" /\ First(ps, "lon:").body.k = "int"
             THEN checked(First(ps, "lat:").body.n, First(ps, "lon:").body.n)
             ELSE <<>>
        ELSE IF Len(ps) /= 2 THEN <<>>
        ELSE IF IsFloat(ps[1]) /\ IsFloat(ps[2])
             THEN checked(ps[1].body.n, ps[2].body.n)
             ELSE <<>>

\* parse_coordinates_string: <<latitude, longitude>>, or <<>> for None.  The
\* spaces are removed first, so st.spaces is not read.  A body that is not a
\* number makes float() raise ValueError, which is caught.
parse_coordinates_string(st) ==
    LET ps == st.parts
        has(lbl) == \E i \in 1..Len(ps) : ps[i].label = lbl
        checked(lat, lon) == IF is_valid_coordinates(lat, lon) THEN <<lat, lon>> ELSE <<>>
    IN  IF ps = <<>> THEN <<>>
        ELSE IF has("lat:") /\ has("lng:")
        THEN IF First(ps, "lat:").body.k = "int" /\ First(ps, "lng:").body.k = "int"
             THEN checked(First(ps, "lat:").body.n, First(ps, "lng:").body.n)
             ELSE <<>>
        ELSE IF Len(ps) /= 2 THEN <<>>
        ELSE IF IsFloat(ps[1]) /\ IsFloat(ps[2])
             THEN checked(ps[1].body.n, ps[2].body.n)
             ELSE <<>>

\* The tagged location; address holds the string when the tag is address.
LocationData(type, latitude, longitude, address) ==
    [type |-> type, latitude |-> latitude, longitude |-> longitude, address |-> address]

process_location(location) ==
    IF location.kind = "none" THEN LocationData("none", JNull, JNull, <<>>)
    ELSE IF location.kind = "str"
    THEN LET parsed_coords == parse_coordinates_string(location.str)
         IN  IF parsed_coords /= <<>>
             THEN LocationData("coordinates", JInt(parsed_coords[1]), JInt(parsed_coords[2]), <<>>)
             ELSE LocationData("address", JNull, JNull, <<location.str>>)
    ELSE IF location.kind = "coords"
    THEN LocationData("coordinates", JInt(location.coords.latitude),
                      JInt(location.coords.longitude), <<>>)
    ELSE LocationData("unknown", JNull, JNull, <<>>)

handler_process_location ==
    /\ input.fn = "process_location" /\ output = NoOutput
    /\ output' = [fn |-> "process_location", result |-> process_location(input.args)]
    /\ UNCHANGED <<input, routeVars, poolVars, storeVars>>

(***************************************************************************)
(* The search radius.  A value in kilometres is held in thousandths of a   *)
(* kilometre, so 5.0 km is 5000 and radius / 1000 of a radius in metres is *)
(* the same number as the radius.                                          *)
(***************************************************************************)
LocationTags == {"none", "address", "coordinates", "unknown"}

get_search_radius_km(location_type) ==
    IF location_type = "coordinates" THEN 5000
    ELSE IF location_type = "address" THEN 10000
    ELSE 15000

\* ai_analysis as build_search_parameters sees it: absent, text that is not
\* JSON, JSON that is not an object, or an object with or without "radius"
\* (a number of metres, as the prompt asks for).
AiAnalyses ==
    {[kind |-> k, has_radius |-> FALSE, radius |-> JNull] :
        k \in {"absent", "nonjson", "list", "dict"}}
    \cup {[kind |-> "dict", has_radius |-> TRUE, radius |-> JInt(r)] : r \in {3000, 10000}}

\* search_radius_km of the parameters: ai_data["radius"] is stored as it is,
\* so a number r is r kilometres.
build_search_parameters(location_type, ai_analysis) ==
    LET search_radius == get_search_radius_km(location_type)
    IN  IF ai_analysis.kind = "dict" /\ ai_analysis.has_radius
        THEN [ok |-> TRUE, search_radius_km |-> ai_analysis.radius.n * 1000]
        ELSE [ok |-> TRUE, search_radius_km |-> search_radius]

\* search_radius_km of _execute_search: search_info is the __dict__ of the
\* criteria, which always has the key "radius", so the default of .get() is
\* never used and a radius of None makes the division raise.
_execute_search_radius(data) ==
    IF IsNumber(data.radius) THEN [ok |-> TRUE, search_radius_km |-> data.radius.n]
    ELSE [ok |-> FALSE, search_radius_km |-> 0]

RadiusCriteria == {[radius |-> r] : r \in {JNull, JInt(3000), JInt(10000)}}

parameter_builder ==
    /\ input.fn = "build_search_parameters" /\ output = NoOutput
    /\ output' = [fn |-> "build_search_parameters",
                  result |-> build_search_parameters(input.args.location_type,
                                                     input.args.ai_analysis)]
    /\ UNCHANGED <<input, routeVars, poolVars, storeVars>>

execute_search_parameters ==
    /\ input.fn = "_execute_search" /\ output = NoOutput
    /\ output' = [fn |-> "_execute_search", result |-> _execute_search_radius(input.args.data)]
    /\ UNCHANGED <<input, routeVars, poolVars, storeVars>>

\* smart_analyze_user_input on a reply of the model, followed by
\* _execute_smart_search with the parameters it returned.
smart_analysis ==
    /\ input.fn = "smart_analyze_user_input" /\ output = NoOutput
    /\ LET analysis == smart_analyze_user_input(input.args.reply)
           search_result == _execute_smart_search(input.args.location, analysis,
                                                  input.args.search)
       IN  output' = [fn |-> "smart_analyze_user_input",
                      result |-> [analysis |-> analysis,
                                  error |-> search_result.raised = "TypeError"]]
    /\ UNCHANGED <<input, routeVars, poolVars, storeVars>>

\* The tagged locations a search is made for; point names the user position
\* of a coordinates tag, address the text of an address tag.
SearchLocations ==
    {[type |-> "none", point |-> "none", address |-> ""]}
    \cup {[type |-> "address", point |-> "none", address |-> a] : a \in {"", "daan", "xinyi"}}
    \cup {[type |-> "coordinates", point |-> p, address |-> ""] : p \in UserPoints}

NoFilter ==
    [point |-> "none", radius_km |-> JNull, address |-> "", query |-> "",
     cuisine |-> "", price_level |-> JNull, min_rating |-> JNull]

_search_by_address(location_data, search_radius_km) ==
    IF location_data.address /= ""
    THEN RestaurantRepository_search_restaurants(
             [NoFilter EXCEPT !.address = location_data.address,
                              !.radius_km = JInt(search_radius_km)])
    ELSE <<>>

_search_without_location(user_input) ==
    RestaurantRepository_search_restaurants([NoFilter EXCEPT !.query = user_input])

\* RestaurantSearchEngine.search_restaurants: search_radius_km arrives in
\* thousandths of a kilometre, distances are compared in hundredths.
engine_search_restaurants(location_data, user_input, search_radius_km) ==
    IF location_data.type = "coordinates"
    THEN _search_by_coordinates(location_data.point, search_radius_km \div 10)
    ELSE IF location_data.type = "address"
    THEN _search_by_address(location_data, search_radius_km \div 10)
    ELSE _search_without_location(user_input)

\* process_search_request without an AI analysis: parameters, search,
\* post-processing.
service_search ==
    /\ input.fn = "process_search_request" /\ output = NoOutput
    /\ LET location_data == input.args.location_data
           params == build_search_parameters(location_data.type,
                         [kind |-> "absent", has_radius |-> FALSE, radius |-> JNull])
           found == engine_search_restaurants(location_data, input.args.user_input,
                                              params.search_radius_km)
       IN  output' = [fn |-> "process_search_request",
                      result |-> _post_process_restaurants(found, location_data.type,
                                                           location_data.point)]
    /\ UNCHANGED <<input, routeVars, poolVars, storeVars>>

\* The lists the in-memory repository of app/repositories is loaded with:
\* the fixture, and the fixture with its first restaurant at distance 0.
RestaurantLists ==
    {restaurants, [restaurants EXCEPT ![1].distance_km = JInt(0)]}

\* InMemoryRestaurantRepository.find_by_criteria.  Its test reads
\*   restaurant.distance_km or (0 <= distance_km and cuisine == criteria.cuisine)
\* so a restaurant with a non-zero distance passes whatever its distance
\* and cuisine are, and one at distance 0 passes when the cuisine is equal.
InMemoryRestaurantRepository_find_by_criteria(criteria, rs) ==
    IF ~Truthy(criteria.radius) \/ criteria.cuisine = "" THEN <<>>
    ELSE LET tag_match(r) == IF criteria.try_new THEN NEW_FLAVOR \in r.tags
                                                 ELSE CLASSIC \in r.tags
             hit(r) == /\ \/ Truthy(r.distance_km)
                          \/ 0 <= criteria.radius.n /\ r.cuisine = criteria.cuisine
                       /\ tag_match(r)
             key(r) == r.distance_km.n * 100 - r.rating
             results == SelectSeq(rs, hit)
         IN  Items(sorted_by_key([i \in 1..Len(results) |->
                                     [key |-> key(results[i]), item |-> results[i]]],
                                 <<>>))

memory_find_by_criteria ==
    /\ input.fn = "InMemoryRestaurantRepository.find_by_criteria" /\ output = NoOutput
    /\ output' = [fn |-> "InMemoryRestaurantRepository.find_by_criteria",
                  result |-> InMemoryRestaurantRepository_find_by_criteria(
                                 input.args.criteria, input.args.restaurants)]
    /\ UNCHANGED <<input, routeVars, poolVars, storeVars>>

\* ---------------------------------------------------------------------
\* DatabaseRestaurantRepository._build_search_query.  The WHERE clause is a
\* sequence of tokens: the text "WHERE 1=1", the joining "AND", and one
\* token per condition with the positional placeholders it mentions.
\* ---------------------------------------------------------------------
Token(text, placeholders) == [text |-> text, placeholders |-> placeholders]

\* the options of every price range the mapping knows
price_mapping ==
    [budget |-> <<"$", "budget", "cheap", "low">>,
     mid_range |-> <<"$$", "moderate", "mid", "medium">>,
     high_mid |-> <<"$$$", "expensive", "high">>,
     expensive |-> <<"$$$$", "luxury", "premium">>]

BuildArgs ==
    [cuisine : {"", "japanese"}, price_range : {"", "budget", "high_mid", "other"},
     min_rating : {0, 40}, query : {"", "sushi"}, has_point : BOOLEAN,
     radius_km : {0, 5}, address : {"", "daan"}]

\* where_conditions.append(condition); params.extend(values); the counter
\* moves past the values.  Only the cuisine condition is written with an
\* AND in front of it.
AddCondition(b, text, leading_and, values) ==
    [conditions |-> b.conditions \o
                      (IF leading_and THEN <<Token("AND", <<>>)>> ELSE <<>>) \o
                      <<Token(text, [i \in 1..Len(values) |-> b.param_counter + i - 1])>>,
     joins |-> Append(b.joins, Len(b.conditions) + 1),
     params |-> b.params \o values,
     param_counter |-> b.param_counter + Len(values)]

\* " AND ".join(where_conditions): an AND in front of every condition but
\* the first; joins holds the position where each condition starts
RECURSIVE JoinWithAnd(_, _, _)
JoinWithAnd(conditions, joins, i) ==
    IF i > Len(conditions) THEN <<>>
    ELSE (IF i > 1 /\ \E j \in 1..Len(joins) : joins[j] = i
            THEN <<Token("AND", <<>>)>> ELSE <<>>)
         \o <<conditions[i]>> \o JoinWithAnd(conditions, joins, i + 1)

_build_search_query(a) ==
    LET b0 == [conditions |-> <<>>, joins |-> <<>>, params |-> <<>>, param_counter |-> 1]
        b1 == IF a.cuisine # ""
                THEN AddCondition(b0, "cuisine", TRUE, <<"cuisine">>) ELSE b0
        b2 == IF a.price_range \in DOMAIN price_mapping
                THEN AddCondition(b1, "price_range", FALSE, price_mapping[a.price_range])
              ELSE b1
        b3 == IF a.min_rating > 0
                THEN AddCondition(b2, "average_rating", FALSE, <<"min_rating">>) ELSE b2
        b4 == IF a.query # ""
                THEN AddCondition(b3, "text",  FALSE, <<"query">>) ELSE b3
        b5 == IF a.has_point /\ a.radius_km # 0
                THEN AddCondition(b4, "distance", FALSE, <<"radius_km">>)
              ELSE IF a.address # ""
                THEN AddCondition(b4, "address", FALSE, <<"address">>)
              ELSE b4
    IN [where_clause |-> IF b5.conditions = <<>> THEN <<>>
                         ELSE <<Token("WHERE 1=1", <<>>)>>
                              \o JoinWithAnd(b5.conditions, b5.joins, 1),
        params |-> b5.params]

build_search_query ==
    /\ input.fn = "_build_search_query" /\ output = NoOutput
    /\ output' = [fn |-> "_build_search_query", result |-> _build_search_query(input.args)]
    /\ UNCHANGED <<input, routeVars, poolVars, storeVars>>

\* One /search call of app/api/restaurant_routes.py: what the repository
\* returned to _execute_smart_search (when it was queried) and the response.
smart_search ==
    /\ input.fn = "restaurant_routes.search_restaurants" /\ output = NoOutput
    /\ LET analysis == smart_analyze_user_input(input.args.reply)
           search_result == _execute_smart_search(input.args.location, analysis,
                                                  input.args.search)
       IN  output' = [fn |-> "restaurant_routes.search_restaurants",
                      result |-> [queried |-> search_result.log # <<>>,
                                  returned |-> DatabaseRestaurantRepository_search_restaurants(
                                                   input.args.search),
                                  response |-> _build_smart_response(search_result,
                                                                     analysis.confidence)]]
    /\ UNCHANGED <<input, routeVars, poolVars, storeVars>>

\* extracted_info mappings over three of the keys, each value null, a
\* number, a string or a list.
ConvertVals ==
    {JNull, JInt(3000), JFloat(4), JStr("3000"), JStr("3km"), JStr("inf"), JList}

ConvertInfos ==
    UNION { [K -> ConvertVals] : K \in SUBSET {"radius", "rating_min", "cuisine"} }

safe_convert ==
    /\ input.fn = "_safe_convert_extracted_info" /\ output = NoOutput
    /\ output' = [fn |-> "_safe_convert_extracted_info",
                  result |-> IF _safe_convert_extracted_info_raises(input.args)
                             THEN [raised |-> TRUE, value |-> EmptyInfo]
                             ELSE [raised |-> FALSE,
                                   value |-> _safe_convert_extracted_info(input.args)]]
    /\ UNCHANGED <<input, routeVars, poolVars, storeVars>>

InitFn ==
    /\ variant = "functions" /\ session = NoSession /\ last = NoTurn
    /\ dbPool = 0 /\ pools = <<>> /\ calls = <<>>
    /\ now = 0 /\ sessions = <<>> /\ ret = NoRet
    /\ output = NoOutput
    /\ \/ \E a \in SearchArgs : input = [fn |-> "search_restaurants", args |-> a]
       \/ \E p \in UserPoints, r \in GeoRadii :
              input = [fn |-> "geo_search", args |-> [point |-> p, radius_km |-> r]]
       \/ \E c \in FindCriteria : input = [fn |-> "find_by_criteria", args |-> c]
       \/ \E l \in LocationInputs : input = [fn |-> "process_location", args |-> l]
       \/ \E t \in LocationTags, a \in AiAnalyses :
              input = [fn |-> "build_search_parameters",
                       args |-> [location_type |-> t, ai_analysis |-> a]]
       \/ \E r \in SmartReplies, l \in LocationTypes, o \in SearchOutcomes :
              input = [fn |-> "smart_analyze_user_input",
                       args |-> [reply |-> r, location |-> l, search |-> o]]
       \/ \E l \in SearchLocations, u \in {"sushi", "classic"} :
              input = [fn |-> "process_search_request",
                       args |-> [location_data |-> l, user_input |-> u]]
       \/ \E c \in FindCriteria, rs \in RestaurantLists :
              input = [fn |-> "InMemoryRestaurantRepository.find_by_criteria",
                       args |-> [criteria |-> c, restaurants |-> rs]]
       \/ \E a \in BuildArgs : input = [fn |-> "_build_search_query", args |-> a]
       \/ \E reply \in SmartReplies, location \in LocationTypes, search \in SearchOutcomes :
              input = [fn |-> "restaurant_routes.search_restaurants",
                       args |-> [reply |-> reply, location |-> location, search |-> search]]
       \/ \E e \in ConvertInfos :
              input = [fn |-> "_safe_convert_extracted_info", args |-> e]
       \/ \E t \in LocationTags, d \in RadiusCriteria :
              input = [fn |-> "_execute_search", args |-> [location_type |-> t, data |-> d]]

NextFn ==
    \/ repo_search_restaurants
    \/ geo_search
    \/ repo_find_by_criteria
    \/ handler_process_location
    \/ parameter_builder
    \/ execute_search_parameters
    \/ smart_analysis
    \/ service_search
    \/ safe_convert
    \/ smart_search
    \/ build_search_query
    \/ memory_find_by_criteria

SpecFn == InitFn /\ [][NextFn]_vars

\* Whether a restaurant of the fixture satisfies every filter the call
\* supplied.
SatisfiesSupplied(id, a) ==
    LET r == restaurants[id]
    IN  /\ (a.point /= "none" /\ a.radius_km /= JNull)
               => calculate_distance(a.point, id) <= a.radius_km.n
        /\ a.address /= "" => a.address \in r.address
        /\ a.query /= "" => a.query \in (r.name \cup {r.cuisine} \cup r.description \cup r.tags)
        /\ a.cuisine /= "" => r.cuisine = a.cuisine
        /\ a.price_level /= JNull => r.price_level = a.price_level.n
        /\ a.min_rating /= JNull => r.rating >= a.min_rating.n

\* C13: every restaurant returned by the in-memory search_restaurants
\* satisfies every filter the call supplied (geo point and radius, address,
\* query, cuisine, price level, minimum rating).
C13_ReturnedSatisfyAllFilters ==
    output.fn = "search_restaurants" =>
        \A i \in 1..Len(output.result) :
            SatisfiesSupplied(output.result[i].id, input.args)

\* C14: a search with a geo filter returns the restaurants by ascending
\* distance, and restaurants at the same distance by descending rating (the
\* in-memory rows carry no popularity or review count for a third key).
C14_GeoOrderedByDistanceThenRating ==
    output.fn = "geo_search" =>
        \A i \in 1..Len(output.result), j \in 1..Len(output.result) :
            i < j =>
                LET a == output.result[i]
                    b == output.result[j]
                IN  \/ a.distance_km.n < b.distance_km.n
                    \/ a.distance_km.n = b.distance_km.n /\ a.rating >= b.rating

\* The call of C15: radius 3000, cuisine Japanese, everything else default.
C15_Call ==
    /\ output.fn = "find_by_criteria"
    /\ input.args = [radius |-> JInt(3000), cuisine |-> "japanese", try_new |-> FALSE]

ResultIds == [i \in 1..Len(output.result) |-> output.result[i].id]

\* C15 as stated: find_by_criteria with radius 3000 and cuisine Japanese on
\* the fixture returns the two Japanese restaurants, 1.8 km then 2.5 km.
C15_TwoJapaneseByDistance ==
    C15_Call => ResultIds = <<2, 1>>

\* C15, amended: find_by_criteria returns exactly the restaurants within
\* radius / 1000 km of the given cuisine that carry the tag selected by
\* try_new (classic when false, new flavour when true), by ascending
\* distance; for radius 3000 and cuisine Japanese with try_new at its default
\* that is the classic restaurant at 2.5 km alone.
C15_TagSelectedByTryNew ==
    output.fn = "find_by_criteria" =>
        LET c == input.args
            wanted == {i \in 1..Len(restaurants) :
                          /\ Truthy(c.radius) /\ c.cuisine /= ""
                          /\ restaurants[i].distance_km.n * 10 <= c.radius.n
                          /\ restaurants[i].cuisine = c.cuisine
                          /\ (IF c.try_new THEN NEW_FLAVOR ELSE CLASSIC) \in restaurants[i].tags}
        IN  /\ {ResultIds[i] : i \in 1..Len(ResultIds)} = wanted
            /\ Len(ResultIds) = Cardinality(wanted)
            /\ \A i \in 1..Len(output.result), j \in 1..Len(output.result) :
                   i < j => output.result[i].distance_km.n <= output.result[j].distance_km.n
            /\ C15_Call => ResultIds = <<1>>

C15_Witness ==
    C15_Call /\ ResultIds = <<1>>

\* A string of two parts, both numbers, the first a latitude in range.
PlainPair(ps) ==
    /\ Len(ps) = 2 /\ ps[1].label = "" /\ ps[2].label = ""
    /\ ps[1].body.k = "int" /\ ps[2].body.k = "int"
    /\ is_valid_coordinates(ps[1].body.n, ps[2].body.n)

\* A string of two parts labelled lat: and lbl, both numbers in range.
LabelledPair(ps, lbl) ==
    /\ Len(ps) = 2 /\ ps[1].label = "lat:" /\ ps[2].label = lbl
    /\ ps[1].body.k = "int" /\ ps[2].body.k = "int"
    /\ is_valid_coordinates(ps[1].body.n, ps[2].body.n)

OtherKinds ==
    /\ input.args.kind = "none" => output.result = LocationData("none", JNull, JNull, <<>>)
    /\ input.args.kind = "other" => output.result.type = "unknown"
    /\ input.args.kind = "coords" =>
           output.result = LocationData("coordinates", JInt(input.args.coords.latitude),
                                        JInt(input.args.coords.longitude), <<>>)

\* C16 as stated: a string in the "lat,lon" form or in the
\* "lat: ..., lon: ..." form becomes coordinates with those two values, every
\* other string becomes an address carrying the whole string.
C16_LatLonFormsAreCoordinates ==
    output.fn = "process_location" =>
        /\ OtherKinds
        /\ input.args.kind = "str" =>
               LET ps == input.args.str.parts
               IN  IF PlainPair(ps) \/ LabelledPair(ps, "lon:")
                   THEN output.result = LocationData("coordinates", ps[1].body, ps[2].body, <<>>)
                   ELSE output.result = LocationData("address", JNull, JNull, <<input.args.str>>)

\* C16, amended: the labelled form is "lat:...,lng:...".  A string holding a
\* part labelled lat: and a part labelled lng: becomes coordinates when the
\* first such parts hold numbers in range (in any order, other parts
\* ignored); a string without both labels becomes coordinates when it is
\* exactly two numbers in range; blanks never matter; every other string
\* becomes an address carrying the whole string.
C16_LatLngFormsAreCoordinates ==
    output.fn = "process_location" =>
        /\ OtherKinds
        /\ input.args.kind = "str" =>
               LET ps == input.args.str.parts
                   lats == {i \in 1..Len(ps) : ps[i].label = "lat:"}
                   lngs == {i \in 1..Len(ps) : ps[i].label = "lng:"}
                   coords(a, b) == LocationData("coordinates", a.body, b.body, <<>>)
                   address == LocationData("address", JNull, JNull, <<input.args.str>>)
               IN  IF lats /= {} /\ lngs /= {}
                   THEN LET a == ps[CHOOSE i \in lats : \A j \in lats : i <= j]
                            b == ps[CHOOSE i \in lngs : \A j \in lngs : i <= j]
                        IN  IF /\ a.body.k = "int" /\ b.body.k = "int"
                               /\ is_valid_coordinates(a.body.n, b.body.n)
                            THEN output.result = coords(a, b)
                            ELSE output.result = address
                   ELSE IF PlainPair(ps) THEN output.result = coords(ps[1], ps[2])
                        ELSE output.result = address

\* A "lat: ..., lng: ..." string with blanks became coordinates.
C16_Witness ==
    /\ output.fn = "process_location" /\ input.args.kind = "str"
    /\ input.args.str.spaces
    /\ LabelledPair(input.args.str.parts, "lng:")
    /\ output.result.type = "coordinates"
    /\ output.result.latitude = JInt(25) /\ output.result.longitude = JInt(121)

\* The default radius of a location tag, in thousandths of a kilometre.
TagDefault(t) ==
    CASE t = "coordinates" -> 5000
      [] t = "address" -> 10000
      [] OTHER -> 15000

\* C17: the radius used is the default of the location tag (coordinates 5 km,
\* address 10 km, none or unknown 15 km) when the extracted criteria carry no
\* radius, and otherwise the extracted radius in metres divided by 1000.
C17_RadiusDefaultOrConverted ==
    /\ output.fn = "build_search_parameters" =>
           LET a == input.args.ai_analysis
           IN  /\ output.result.ok
               /\ output.result.search_radius_km =
                      IF a.kind = "dict" /\ a.has_radius THEN a.radius.n
                      ELSE TagDefault(input.args.location_type)
    /\ output.fn = "_execute_search" =>
           LET d == input.args.data
           IN  /\ output.result.ok
               /\ output.result.search_radius_km =
                      IF IsNumber(d.radius) THEN d.radius.n
                      ELSE TagDefault(input.args.location_type)

\* C18: smart_analyze_user_input always returns success with a usable
\* (present, non-null, numeric) radius_meters, the default standing in for a
\* value the model omitted or returned in an invalid form, so that the search
\* that follows does not fail for want of a criteria value.
C18_ParamsAlwaysUsable ==
    output.fn = "smart_analyze_user_input" =>
        /\ output.result.analysis.success
        /\ IsNumber(output.result.analysis.radius_meters)
        /\ ~output.result.error

\* C19: a returned restaurant carries a distance only when the request
\* supplied user coordinates; for an address, a query or no location the
\* returned restaurants carry no distance.
C19_DistanceOnlyWithCoordinates ==
    (output.fn = "process_search_request" /\ input.args.location_data.type /= "coordinates")
        => \A i \in 1..Len(output.result) : output.result[i].distance_km = JNull

(***************************************************************************)
(* UserSession.is_fresh_conversation (src/app/models/user_session.py),     *)
(* which the session status endpoint reports as is_ready_for_new_search.   *)
(***************************************************************************)
get_messages_by_role(s, role) ==
    LET same(msg) == msg.role = role
    IN  SelectSeq(s.history, same)

\* The variant that calls a session fresh when it has no message at all.
is_fresh_conversation_no_message(s) == Len(s.history) = 0

is_fresh_conversation(s) == Len(get_messages_by_role(s, USER)) = 0

NoUserMessage(s) == \A i \in 1..Len(s.history) : s.history[i].role /= USER

FreshIffNoUserMessage ==
    \A u \in DOMAIN sessions :
        /\ is_fresh_conversation(sessions[u]) <=> NoUserMessage(sessions[u])
        /\ sessions[u].history = <<>> => is_fresh_conversation(sessions[u])

\* Appending a user message ends the freshness; the cleanup of a completed
\* conversation (history cleared, criteria reset, marker added) restores it.
FreshStep ==
    \A u \in DOMAIN sessions \cap DOMAIN sessions' :
        LET h == sessions[u].history
            g == sessions'[u].history
        IN  /\ (Len(g) = Len(h) + 1 /\ g[Len(g)].role = USER)
                   => ~is_fresh_conversation(sessions'[u])
            /\ (g /= h /\ g = <<NewConversationMarker>> /\ sessions'[u].data = SearchCriteria)
                   => is_fresh_conversation(sessions'[u])

\* C20: after any sequence of session operations is_fresh_conversation() is
\* true exactly when the history holds no user message: a session without
\* messages is fresh, it stops being fresh when a user message is appended,
\* and it is fresh again after the cleanup of a completed conversation.
C20_FreshIffNoUserMessage == []FreshIffNoUserMessage /\ [][FreshStep]_vars

\* one session was used, cleaned up and is fresh though not empty, while
\* another holds a user message and is not fresh
C20_Witness ==
    \E u \in DOMAIN sessions, v \in DOMAIN sessions :
        /\ sessions[u].history = <<NewConversationMarker>>
        /\ is_fresh_conversation(sessions[u])
        /\ \E i \in 1..Len(sessions[v].history) : sessions[v].history[i].role = USER
        /\ ~is_fresh_conversation(sessions[v])

MaxTurns == 3

RuleInputs == [radius : {0, 3000, 5000}, cuisine : {"", "japanese", "italian"}]

NoInfo == [k \in {} |-> JNull]

\* The result of an analysis; collected_info is the mapping as the call
\* leaves it.
AnalysisResult(is_complete, missing_fields, collected_info) ==
    [is_complete |-> is_complete, missing_fields |-> missing_fields,
     collected_info |-> collected_info]

\* analyze_user_input: radius first, then cuisine, each only when not yet
\* collected; it returns at the first one it cannot find.
analyze_user_input(user_input, collected_info) ==
    LET c1 == IF "radius" \notin DOMAIN collected_info /\ user_input.radius # 0
              THEN collected_info @@ [k \in {"radius"} |-> JInt(user_input.radius)]
              ELSE collected_info
        c2 == IF "cuisine" \notin DOMAIN c1 /\ user_input.cuisine # ""
              THEN c1 @@ [k \in {"cuisine"} |-> JStr(user_input.cuisine)]
              ELSE c1
    IN  IF "radius" \notin DOMAIN c1 THEN AnalysisResult(FALSE, <<"radius">>, c1)
        ELSE IF "cuisine" \notin DOMAIN c2 THEN AnalysisResult(FALSE, <<"cuisine">>, c2)
        ELSE AnalysisResult(TRUE, <<>>, c2)

\* getattr(user_session, "search_criteria", {}) or {}: UserSession has no
\* such attribute and nothing assigns one, so every turn starts from an
\* empty mapping.
session_collected_info(user_session, turns) ==
    IF "search_criteria" \in DOMAIN user_session /\ user_session.search_criteria # NoInfo
    THEN user_session.search_criteria
    ELSE NoInfo

\* process_search_request: the search runs when the analysis is complete.
rule_process_search_request ==
    /\ variant = "rule" /\ Len(output) < MaxTurns
    /\ \E user_input \in RuleInputs :
          LET user_session == get_or_create(session)
              analysis_result == analyze_user_input(user_input,
                                     session_collected_info(user_session, output))
          IN  output' = Append(output,
                               [user_input |-> user_input,
                                searched |-> analysis_result.is_complete,
                                missing_fields |-> analysis_result.missing_fields,
                                collected_info |-> analysis_result.collected_info])
    /\ UNCHANGED <<input, routeVars, poolVars, storeVars>>

InitRule ==
    /\ variant = "rule" /\ session = UserSession /\ last = NoTurn
    /\ dbPool = 0 /\ pools = <<>> /\ calls = <<>>
    /\ now = 0 /\ sessions = <<>> /\ ret = NoRet
    /\ input = NoOutput /\ output = <<>>

NextRule == rule_process_search_request

SpecRule == InitRule /\ [][NextRule]_vars

OnlyRadius(u) == u.radius # 0 /\ u.cuisine = ""
OnlyCuisine(u) == u.radius = 0 /\ u.cuisine # ""

\* C22: in the rule-based variant what an earlier turn collected is
\* retained: when one turn supplies only the radius and the next turn of
\* the same conversation only the cuisine, or the other way round, the later
\* turn is complete and runs the search.
C22_CollectedInfoRetained ==
    \A j \in 2..Len(output) :
        (\/ OnlyRadius(output[j - 1].user_input) /\ OnlyCuisine(output[j].user_input)
         \/ OnlyCuisine(output[j - 1].user_input) /\ OnlyRadius(output[j].user_input))
            => output[j].searched

\* C23: _safe_convert_extracted_info never raises; a field whose conversion
\* fails is left out and every other non-null field is kept; in the result
\* radius and price_level are integers and rating_min, latitude and
\* longitude are floats.
C23_ConvertedOrDropped ==
    output.fn = "_safe_convert_extracted_info" =>
        /\ ~output.result.raised
        /\ \A key \in DOMAIN output.result.value :
              /\ key \in {"radius", "price_level"} => output.result.value[key].k = "int"
              /\ key \in {"rating_min", "latitude", "longitude"}
                    => output.result.value[key].k = "float"
        /\ \A key \in DOMAIN input.args :
              (input.args[key].k \in {"int", "float"} \/ input.args[key] = JStr("3000"))
                  => key \in DOMAIN output.result.value

\* ---------------------------------------------------------------------
\* One /search turn of app/api/routes.py in flight, next to the requests of
\* other clients.  The handler holds the session object that get_or_create
\* returned and mutates that object; it never saves it back.  The store
\* holds the same object for as long as it has not removed it.
\* ---------------------------------------------------------------------

FlightUser == "u1"

Idle == [pc |-> "idle", held |-> NoSession]

\* the store still holds the object the handler holds
Attached ==
    FlightUser \in DOMAIN sessions /\ sessions[FlightUser] = input.held

\* a mutation of the held object shows in the store only while it is there
Mutated(s) ==
    IF Attached THEN [sessions EXCEPT ![FlightUser] = s] ELSE sessions

\* line 43, up to the awaited analysis of line 46
turn_start ==
    /\ variant = "flight" /\ input.pc = "idle"
    /\ output' = NoOutput
    /\ UNCHANGED <<routeVars, poolVars>>
    /\ LET after == _cleanup_expired(sessions, now)
       IN IF FlightUser \in DOMAIN after
            THEN /\ Len(after[FlightUser].history) + 2 <= MaxHistory
                 /\ sessions' = after
                 /\ input' = [pc |-> "analysing", held |-> after[FlightUser]]
                 /\ ret' = StoreRet("get_or_create", FlightUser, sessions, after, now, FALSE)
                 /\ UNCHANGED now
          ELSE \E t2 \in {now, Min(now + 1, MaxClock)} :
                 /\ sessions' = save(after, FlightUser, TimedUserSession(now, t2))
                 /\ input' = [pc |-> "analysing", held |-> TimedUserSession(now, t2)]
                 /\ now' = t2
                 /\ ret' = StoreRet("get_or_create", FlightUser, sessions, after, now, TRUE)

\* lines 48-62: after the analysis the criteria are updated (when it
\* succeeded) and the user message is added; then the next call is awaited
turn_update ==
    /\ variant = "flight" /\ input.pc = "analysing"
    /\ \E s \in {add_message_at(input.held, USER, "in1", now)}
             \cup {add_message_at(update_search_criteria_at(input.held, kwargs, now),
                                  USER, "in1", now) : kwargs \in CriteriaUpdates} :
          /\ sessions' = Mutated(s)
          /\ input' = [pc |-> "searching", held |-> s]
    /\ ret' = NoRet
    /\ UNCHANGED <<now, output, routeVars, poolVars>>

\* lines 131, 181, 257: the last mutation of the turn, the assistant message
turn_finish ==
    /\ variant = "flight" /\ input.pc = "searching"
    /\ LET s == add_message_at(input.held, ASSISTANT, "plain", now)
       IN /\ sessions' = Mutated(s)
          /\ output' = [fn |-> "turn", result |-> [stored |-> Attached, session |-> s]]
    /\ input' = Idle
    /\ ret' = NoRet
    /\ UNCHANGED <<now, routeVars, poolVars>>

\* the first step of any other request: its get_or_create
other_get_or_create ==
    /\ variant = "flight"
    /\ \E u \in UserIds : session_get_or_create(u)

InitFlight ==
    /\ variant = "flight"
    /\ session = NoSession
    /\ last = NoTurn
    /\ dbPool = 0
    /\ pools = <<>>
    /\ calls = <<>>
    /\ now = 0
    /\ sessions = <<>>
    /\ ret = NoRet
    /\ input = Idle
    /\ output = NoOutput

NextFlight ==
    \/ tick
    \/ other_get_or_create
    \/ turn_start
    \/ turn_update
    \/ turn_finish

SpecFlight == InitFlight /\ [][NextFlight]_vars

\* C24: while a /search turn of a user is in flight, no other request makes
\* the store drop that user's session, so the store holds the object the
\* handler mutates and every update of the turn reaches the stored session.
C24_InFlightSessionKept ==
    /\ input.pc \in {"analysing", "searching"} => Attached
    /\ output.fn = "turn" => output.result.stored

\* ---------------------------------------------------------------------
\* Two /search requests of api/routes.py for one user id, in flight at
\* once.  Both hold the same session object; each message carries the id
\* of the request that appended it.
\* ---------------------------------------------------------------------

Requests == {"r1", "r2"}

\* the history the two requests find: empty, or an earlier question turn
EarlierHistories ==
    {<<>>, <<ChatMessage(USER, "in1"), ChatMessage(ASSISTANT, "question")>>}

\* lines 40-45, up to the awaited generate_response of line 52
request_begin(r) ==
    /\ variant = "race" /\ input[r] = "idle"
    /\ session' = add_message(session, USER, r)
    /\ input' = [input EXCEPT ![r] = "generating"]
    /\ UNCHANGED <<variant, last, output, poolVars, storeVars>>

\* line 55, up to the awaited process_search_request of line 59
request_generated(r) ==
    /\ variant = "race" /\ input[r] = "generating"
    /\ session' = add_message(session, ASSISTANT, r)
    /\ input' = [input EXCEPT ![r] = "searching"]
    /\ UNCHANGED <<variant, last, output, poolVars, storeVars>>

\* lines 68-108: the search returned; the history is cleared when there are
\* recommendations and no follow-up question
request_searched(r) ==
    /\ variant = "race" /\ input[r] = "searching"
    /\ \E cleared \in BOOLEAN :
          session' = IF cleared THEN clear_history(session) ELSE session
    /\ input' = [input EXCEPT ![r] = "done"]
    /\ UNCHANGED <<variant, last, output, poolVars, storeVars>>

\* lines 110-115: an awaited call raised; the last two messages are removed
request_failed(r) ==
    /\ variant = "race" /\ input[r] \in {"generating", "searching"}
    /\ session' = rollback_last_messages(session, 2)
    /\ output' = [fn |-> "rollback", by |-> r,
                  removed |-> SubSeq(session.history,
                                     Len(session.history) - Min(2, Len(session.history)) + 1,
                                     Len(session.history))]
    /\ input' = [input EXCEPT ![r] = "failed"]
    /\ UNCHANGED <<variant, last, poolVars, storeVars>>

InitRace ==
    /\ variant = "race"
    /\ \E h \in EarlierHistories : session = [UserSession EXCEPT !.history = h]
    /\ last = NoTurn
    /\ dbPool = 0
    /\ pools = <<>>
    /\ calls = <<>>
    /\ now = 0
    /\ sessions = <<>>
    /\ ret = NoRet
    /\ input = [r \in Requests |-> "idle"]
    /\ output = NoOutput

NextRace ==
    \E r \in Requests :
        \/ request_begin(r)
        \/ request_generated(r)
        \/ request_searched(r)
        \/ request_failed(r)

SpecRace == InitRace /\ [][NextRace]_vars

\* C25: with two /search requests of one user in flight, the rollback of
\* the failing request removes only messages that this request appended:
\* no message that the other request appended is among the removed ones.
C25_RollbackRemovesOwnMessages ==
    output.fn = "rollback" =>
        \A i \in 1..Len(output.removed) :
            output.removed[i].content \notin Requests \ {output.by}

\* A turn of app/api/routes.py that ended by asking for more information.
Collecting(turn) == "needs_more_info" \in turn.resp.metadata

CollectingStep ==
    (variant = "app" /\ Collecting(last) /\ Collecting(last')) =>
        \A f \in {"radius", "cuisine"} :
            session.data[f] # JNull => session'.data[f] # JNull

\* C26: in app/api/routes.py a criteria field (cuisine or radius) set by an
\* earlier collecting turn keeps its value through a later collecting turn
\* unless that turn's extracted_info supplies a new non-null value: either
\* way the field is still set after the later turn.
C26_CollectedFieldStaysSet == [][CollectingStep]_vars

\* C27: every restaurant that InMemoryRestaurantRepository.find_by_criteria
\* returns has the cuisine of the criteria and a distance of at most
\* criteria.radius / 1000 km.
C27_ReturnedMatchCuisineAndRadius ==
    output.fn = "InMemoryRestaurantRepository.find_by_criteria" =>
        \A i \in 1..Len(output.result) :
            /\ output.result[i].cuisine = input.args.criteria.cuisine
            /\ output.result[i].distance_km.n * 10 <= input.args.criteria.radius.n

\* the clause is "WHERE 1=1" and then, for every condition, one AND and the
\* condition (no clause at all when there is no condition)
JoinedWithOneAnd(w) ==
    \/ w = <<>>
    \/ /\ w[1].text = "WHERE 1=1"
       /\ Len(w) % 2 = 1
       /\ \A i \in 2..Len(w) : (w[i].text = "AND") <=> (i % 2 = 0)

\* C28: for every combination of filters the statement of
\* _build_search_query is well formed: "WHERE 1=1" followed by the
\* conditions, each joined with exactly one AND; every placeholder $k has
\* 1 <= k <= len(params); every parameter is referenced by a placeholder.
C28_StatementWellFormed ==
    output.fn = "_build_search_query" =>
        LET w == output.result.where_clause
            used == UNION {{w[i].placeholders[j] : j \in 1..Len(w[i].placeholders)}
                             : i \in 1..Len(w)}
        IN /\ JoinedWithOneAnd(w)
           /\ used = 1..Len(output.result.params)

\* C29: in app/api/restaurant_routes.py, whenever the repository search
\* returns a non-empty list of restaurants, the response has type success
\* and its recommendations are exactly those restaurants.
C29_FoundRestaurantsAreRecommended ==
    (/\ output.fn = "restaurant_routes.search_restaurants"
     /\ output.result.queried
     /\ output.result.returned # <<>>)
        => /\ output.result.response.type = "success"
           /\ output.result.response.recommendations = output.result.returned

\* ---------------------------------------------------------------------
\* DatabaseManager.init_connection, run by the pool for each connection it
\* opens.  Per connection: where the call stands, the loop index, how often
\* the initialisation SQL was executed, and the message of the last error.
\* ---------------------------------------------------------------------
max_retries == 3

Connections == {"c1", "c2"}

\* str(e).lower() of the errors conn.execute can raise
ErrorMessages ==
    {"tuple concurrently updated", "could not serialize access", "permission denied"}

IsTransient(error_msg) ==
    error_msg \in {"tuple concurrently updated", "could not serialize access"}

\* a loop that retries after every error while attempts remain
ShouldRetry_any_error(error_msg, attempt) == attempt < max_retries - 1

\* the condition of the except branch
ShouldRetry(error_msg, attempt) ==
    IsTransient(error_msg) /\ attempt < max_retries - 1

NotCalled == [pc |-> "idle", attempt |-> 0, executed |-> 0, error |-> "none"]

\* the call enters the loop and awaits the first conn.execute
init_connection(c) ==
    /\ variant = "init" /\ input[c].pc = "idle"
    /\ input' = [input EXCEPT ![c].pc = "executing"]
    /\ UNCHANGED <<output, routeVars, poolVars, storeVars>>

\* conn.execute(init_sql) returns (break) or raises; the except branch then
\* sleeps before the next round or re-raises
execute(c) ==
    /\ variant = "init" /\ input[c].pc = "executing"
    /\ \/ input' = [input EXCEPT ![c].pc = "returned", ![c].executed = @ + 1]
       \/ \E error_msg \in ErrorMessages :
             input' = [input EXCEPT
                         ![c].pc = IF ShouldRetry(error_msg, input[c].attempt)
                                     THEN "sleeping" ELSE "raised",
                         ![c].executed = @ + 1,
                         ![c].error = error_msg]
    /\ UNCHANGED <<output, routeVars, poolVars, storeVars>>

\* asyncio.sleep returns; continue with the next value of attempt
sleep_done(c) ==
    /\ variant = "init" /\ input[c].pc = "sleeping"
    /\ input' = [input EXCEPT ![c].pc = "executing", ![c].attempt = @ + 1]
    /\ UNCHANGED <<output, routeVars, poolVars, storeVars>>

InitConn ==
    /\ variant = "init"
    /\ session = NoSession
    /\ last = NoTurn
    /\ dbPool = 0
    /\ pools = <<>>
    /\ calls = <<>>
    /\ now = 0
    /\ sessions = <<>>
    /\ ret = NoRet
    /\ input = [c \in Connections |-> NotCalled]
    /\ output = NoOutput

NextConn ==
    \E c \in Connections :
        \/ init_connection(c)
        \/ execute(c)
        \/ sleep_done(c)

\* the event loop runs every call that is ready to go on
SpecConn == InitConn /\ [][NextConn]_vars /\ WF_vars(NextConn)

Ended(c) == input[c].pc \in {"returned", "raised"}

\* at most three executions; a retry is pending only after a transient error
\* with attempts left; a transient error is re-raised only after the third
\* execution and any other error after the execution that raised it
RetryDiscipline ==
    \A c \in Connections :
        /\ input[c].executed <= 3
        /\ input[c].executed = input[c].attempt + (IF input[c].pc \in {"idle", "executing"} THEN 0 ELSE 1)
        /\ input[c].pc = "sleeping" =>
              IsTransient(input[c].error) /\ input[c].executed < 3
        /\ (input[c].pc = "raised" /\ IsTransient(input[c].error)) =>
              input[c].executed = 3
        /\ input[c].pc = "returned" => input[c].error = "none" \/ IsTransient(input[c].error)

\* an ended call does nothing more
EndedStep == \A c \in Connections : Ended(c) => input'[c] = input[c]

\* C30: init_connection always terminates and executes the initialisation
\* SQL at most 3 times: it retries only after a transient error ('tuple
\* concurrently updated', 'could not serialize access') and only while
\* attempts remain, re-raises any other error at once, re-raises the
\* transient error after the third failed attempt, and makes no further
\* attempt once an execution has succeeded.
C30_BoundedRetry ==
    /\ []RetryDiscipline
    /\ [][EndedStep]_vars
    /\ <>(\A c \in Connections : Ended(c))

C30_Witness ==
    /\ input["c1"].pc = "raised" /\ input["c1"].executed = 3
    /\ input["c1"].error = "tuple concurrently updated"
    /\ input["c2"].pc = "returned" /\ input["c2"].executed = 2

====
